---- MODULE Spec2Model ----
(***************************************************************************)
(* Transaction pipeline of financial-hub: CSV rows -> canonical            *)
(* transactions -> content-derived ids -> merge with the persisted store   *)
(* -> rule-based categorization -> persisted store.                        *)
(*                                                                         *)
(* Text is modelled as a sequence of one-character strings, so that        *)
(* split, trim, padStart, toLowerCase, includes and string concatenation   *)
(* are computed the way the code computes them.  An optional field         *)
(* (TypeScript `x?: string`) is <<>> when undefined and <<s>> when it      *)
(* holds the string s.                                                     *)
(***************************************************************************)
EXTENDS Integers, Sequences, FiniteSets, TLC

VARIABLES
  storeFile,             \* src/config/transactions.json: [exists, wellFormed, content]
  pc,                    \* position of main(): "idle", "parsing"
  existingTransactions,  \* main: const existingTransactions
  csvFiles,              \* main: the files the for loop has still to visit
  allCSVTransactions,    \* main: const allCSVTransactions
  seenIds,               \* main: const seenIds
  runs,                  \* number of runs of main() started so far
  edits,                 \* number of manual edits of the store so far
  lastRun,               \* how the latest run of main() ended, and what it saw
  fnIn,                  \* function harness: the call (function and arguments)
  fnOut,                 \* function harness: the value returned
  otherRun,              \* a second invocation of main(): its position ("idle",
                         \* "parsing", "returned") and its locals
  landed                 \* what reached the store file while main() was between
                         \* its load and its write

vars == << storeFile, pc, existingTransactions, csvFiles, allCSVTransactions,
           seenIds, runs, edits, lastRun, fnIn, fnOut, otherRun, landed >>

pipelineVars == << storeFile, pc, existingTransactions, csvFiles,
                   allCSVTransactions, seenIds, runs, edits, lastRun,
                   otherRun, landed >>

fnVars == << fnIn, fnOut >>

raceVars == << otherRun, landed >>

-----------------------------------------------------------------------------
(* JavaScript strings and numbers                                          *)

Undefined == << >>

Some(s) == << s >>

UpperChars ==
  << "A","B","C","D","E","F","G","H","I","J","K","L","M",
     "N","O","P","Q","R","S","T","U","V","W","X","Y","Z" >>

LowerChars ==
  << "a","b","c","d","e","f","g","h","i","j","k","l","m",
     "n","o","p","q","r","s","t","u","v","w","x","y","z" >>

DigitChars == << "0","1","2","3","4","5","6","7","8","9" >>

WhiteSpace == { " ", "\t", "\r" }

IsDigit(c) == c \in { DigitChars[i] : i \in DOMAIN DigitChars }

\* the digit a digit character stands for
DigitValues == [ c \in { DigitChars[i] : i \in DOMAIN DigitChars } |->
                   (CHOOSE i \in DOMAIN DigitChars : DigitChars[i] = c) - 1 ]

DigitVal(c) == DigitValues[c]

\* the lower-case letter of each upper-case letter
LowerOf == [ c \in { UpperChars[i] : i \in DOMAIN UpperChars } |->
               LowerChars[CHOOSE i \in DOMAIN UpperChars : UpperChars[i] = c] ]

\* String.prototype.toLowerCase, on one character and on a string
toLowerChar(c) == IF c \in DOMAIN LowerOf THEN LowerOf[c] ELSE c

toLowerCase(s) == [ i \in DOMAIN s |-> toLowerChar(s[i]) ]

\* String.prototype.includes
includes(s, k) ==
  \E i \in 0 .. (Len(s) - Len(k)) : \A j \in 1 .. Len(k) : s[i + j] = k[j]

\* String.prototype.trim
RECURSIVE trimStart(_)
trimStart(s) ==
  IF s # << >> /\ Head(s) \in WhiteSpace THEN trimStart(Tail(s)) ELSE s

RECURSIVE trimEnd(_)
trimEnd(s) ==
  IF s # << >> /\ s[Len(s)] \in WhiteSpace
    THEN trimEnd(SubSeq(s, 1, Len(s) - 1))
    ELSE s

trim(s) == trimEnd(trimStart(s))

\* the first position from i on where s holds sep, Len(s) + 1 if none
RECURSIVE indexFrom(_, _, _)
indexFrom(s, sep, i) ==
  IF i > Len(s) \/ s[i] = sep THEN i ELSE indexFrom(s, sep, i + 1)

\* String.prototype.split with a one-character separator: the pieces of s
\* between the occurrences of sep (always at least one piece)
RECURSIVE splitFrom(_, _, _)

\* the piece from i to the separator at j, and the pieces after it
splitAt(s, sep, i, j) ==
  << SubSeq(s, i, j - 1) >>
    \o (IF j > Len(s) THEN << >> ELSE splitFrom(s, sep, j + 1))

splitFrom(s, sep, i) == splitAt(s, sep, i, indexFrom(s, sep, i))

split(s, sep) == splitFrom(s, sep, 1)

\* String.prototype.padStart(2, '0')
padStart2(s) == IF Len(s) >= 2 THEN s ELSE IF Len(s) = 1 THEN << "0" >> \o s ELSE << "0", "0" >>

\* JavaScript truthiness of an optional string: defined and not ""
Truthy(opt) == opt # Undefined /\ opt[1] # << >>

\* `x && x.trim()` as a condition: x is defined and not blank
NonBlank(opt) == Truthy(opt) /\ trim(opt[1]) # << >>

-----------------------------------------------------------------------------
(* Locale parsers, identity hasher and transaction builder                 *)
(* (scripts/parse-transactions.ts)                                         *)

\* Decimal places a number keeps in the model: a number is an integer count
\* of 10^-AmountScale units (cents when AmountScale = 2)
AmountScale == 2

RECURSIVE Pow10(_)
Pow10(k) == IF k = 0 THEN 1 ELSE 10 * Pow10(k - 1)

NaN == [ nan |-> TRUE, v |-> 0 ]

Num(v) == [ nan |-> FALSE, v |-> v ]

\* the digits of s from position i on
RECURSIVE digitRun(_, _)
digitRun(s, i) ==
  IF i <= Len(s) /\ IsDigit(s[i]) THEN << s[i] >> \o digitRun(s, i + 1) ELSE << >>

RECURSIVE digitsValue(_)
digitsValue(d) ==
  IF d = << >> THEN 0
  ELSE digitsValue(SubSeq(d, 1, Len(d) - 1)) * 10 + DigitVal(d[Len(d)])

\* the first k digits of a fraction, zero-filled on the right
RECURSIVE fractionDigits(_, _)
fractionDigits(d, k) ==
  IF k = 0 THEN << >>
  ELSE IF d = << >> THEN << "0" >> \o fractionDigits(d, k - 1)
  ELSE << Head(d) >> \o fractionDigits(Tail(d), k - 1)

\* parseFloat: leading white space, an optional sign, digits, an optional
\* fraction; the longest such prefix is the value and what follows is
\* ignored; NaN when the prefix holds no digit.  (Exponents and "Infinity"
\* are not modelled; fraction digits past AmountScale are dropped.)
\* the value of the digits before and after the point
magnitude(ints, fracs) ==
  digitsValue(ints) * Pow10(AmountScale)
    + digitsValue(fractionDigits(fracs, AmountScale))

\* the number read: s without leading white space, its integer digits and
\* its fraction digits
floatOf(s, ints, fracs) ==
  IF ints = << >> /\ fracs = << >> THEN NaN
  ELSE Num(IF s[1] = "-" THEN 0 - magnitude(ints, fracs)
           ELSE magnitude(ints, fracs))

\* the fraction digits, q being the position after the integer digits
fractionRun(s, q) ==
  IF q <= Len(s) /\ s[q] = "." THEN digitRun(s, q + 1) ELSE << >>

\* the digits of s read from position p on, after the sign if there is one
floatFromDigits(s, p, ints) == floatOf(s, ints, fractionRun(s, p + Len(ints)))

floatFrom(s, p) == floatFromDigits(s, p, digitRun(s, p))

floatTrimmed(s) ==
  floatFrom(s, IF s # << >> /\ s[1] \in { "-", "+" } THEN 2 ELSE 1)

parseFloat(str) == floatTrimmed(trimStart(str))

\* String.prototype.replace(',', '.'): the first comma only
RECURSIVE replaceFirstComma(_)
replaceFirstComma(s) ==
  IF s = << >> THEN << >>
  ELSE IF Head(s) = "," THEN << "." >> \o Tail(s)
  ELSE << Head(s) >> \o replaceFirstComma(Tail(s))

\* Math.abs
abs(v) == IF v < 0 THEN 0 - v ELSE v

\* Number::toString of a non-negative integer
RECURSIVE intToString(_)
intToString(n) ==
  IF n < 10 THEN << DigitChars[n + 1] >>
  ELSE intToString(n \div 10) \o << DigitChars[(n % 10) + 1] >>

\* the k decimal places of f, without trailing zeros
RECURSIVE placesToString(_, _)
placesToString(f, k) ==
  IF f = 0 \/ k = 0 THEN << >>
  ELSE << DigitChars[(f \div Pow10(k - 1)) + 1] >>
         \o placesToString(f % Pow10(k - 1), k - 1)

\* `${n}`: Number::toString, the shortest decimal that reads back as n
numberToString(v) ==
  LET mag  == abs(v)
      whole == intToString(mag \div Pow10(AmountScale))
      places == placesToString(mag % Pow10(AmountScale), AmountScale)
  IN  (IF v < 0 THEN << "-" >> ELSE << >>)
        \o whole
        \o (IF places = << >> THEN << >> ELSE << "." >> \o places)

\* createHash('sha256').update(combined).digest('hex').substring(0, 12):
\* the digest prefix is taken to be collision-free, so it is modelled by an
\* injective function of the hashed string, the string itself
sha256Prefix(combined) == combined

\* hashInput without the balance
hashInputNoBalance(valorDate, fecha, description, movimiento, amount, disponible) ==
  valorDate \o << "|" >> \o fecha \o << "|" >> \o description \o << "|" >>
    \o movimiento \o << "|" >> \o numberToString(abs(amount))

\* the string generateId hashes
hashInput(valorDate, fecha, description, movimiento, amount, disponible) ==
  valorDate \o << "|" >> \o fecha \o << "|" >> \o description \o << "|" >>
    \o movimiento \o << "|" >> \o numberToString(abs(amount)) \o << "|" >>
    \o disponible

generateId(valorDate, fecha, description, movimiento, amount, disponible) ==
  << "t", "x", "_" >>
    \o sha256Prefix(hashInput(valorDate, fecha, description, movimiento,
                              amount, disponible))

\* a call that may throw: [ok |-> TRUE, value |-> v] or [ok |-> FALSE]
Return(v) == [ ok |-> TRUE, value |-> v ]

Throw == [ ok |-> FALSE, value |-> << >> ]

convertDate(dateStr) ==
  LET parts == split(dateStr, "/")
      day   == parts[1]
      month == IF Len(parts) >= 2 THEN parts[2] ELSE << >>
      year  == IF Len(parts) >= 3 THEN parts[3] ELSE << >>
  IN  IF day = << >> \/ month = << >> \/ year = << >> THEN Throw
      ELSE Return(year \o << "-" >> \o padStart2(month) \o << "-" >> \o padStart2(day))

parseAmount(amountStr) ==
  LET amount == parseFloat(replaceFirstComma(amountStr))
  IN  IF amount.nan THEN Throw ELSE Return(amount.v)

\* variant of buildTransaction: an amount of zero makes an expense
buildTransactionZeroExpense(row) ==
  LET date   == convertDate(row.valorDate)
      fecha  == IF row.fecha # << >> THEN convertDate(row.fecha) ELSE date
      amount == parseAmount(row.importe)
  IN  IF ~date.ok \/ ~fecha.ok \/ ~amount.ok THEN Throw
      ELSE LET absoluteAmount == abs(amount.value)
           IN  Return([ id |-> generateId(date.value, fecha.value, row.concepto,
                                          row.movimiento, absoluteAmount,
                                          row.disponible),
                        date |-> date.value,
                        description |-> row.concepto,
                        descriptionOverride |-> Undefined,
                        amount |-> absoluteAmount,
                        category |-> "pendiente",
                        categoryOverride |-> Undefined,
                        account |-> "checking",
                        type |-> IF amount.value <= 0 THEN "expense" ELSE "income" ])

\* variant of buildTransaction: an empty secondary date goes into the id as
\* it is
buildTransactionNoFallback(row) ==
  LET date   == convertDate(row.valorDate)
      fecha  == IF row.fecha # << >> THEN convertDate(row.fecha) ELSE Return(<< >>)
      amount == parseAmount(row.importe)
  IN  IF ~date.ok \/ ~fecha.ok \/ ~amount.ok THEN Throw
      ELSE LET absoluteAmount == abs(amount.value)
           IN  Return([ id |-> generateId(date.value, fecha.value, row.concepto,
                                          row.movimiento, absoluteAmount,
                                          row.disponible),
                        date |-> date.value,
                        description |-> row.concepto,
                        descriptionOverride |-> Undefined,
                        amount |-> absoluteAmount,
                        category |-> "pendiente",
                        categoryOverride |-> Undefined,
                        account |-> "checking",
                        type |-> IF amount.value < 0 THEN "expense" ELSE "income" ])

\* hashInput with the amount as it is, sign included
hashInputSigned(valorDate, fecha, description, movimiento, amount, disponible) ==
  valorDate \o << "|" >> \o fecha \o << "|" >> \o description \o << "|" >>
    \o movimiento \o << "|" >> \o numberToString(amount) \o << "|" >>
    \o disponible

\* variant of buildTransaction: the id is made from the signed amount
buildTransactionSignedId(row) ==
  LET date   == convertDate(row.valorDate)
      fecha  == IF row.fecha # << >> THEN convertDate(row.fecha) ELSE date
      amount == parseAmount(row.importe)
  IN  IF ~date.ok \/ ~fecha.ok \/ ~amount.ok THEN Throw
      ELSE LET absoluteAmount == abs(amount.value)
           IN  Return([ id |-> << "t", "x", "_" >>
                                 \o sha256Prefix(hashInputSigned(date.value,
                                       fecha.value, row.concepto, row.movimiento,
                                       amount.value, row.disponible)),
                        date |-> date.value,
                        description |-> row.concepto,
                        descriptionOverride |-> Undefined,
                        amount |-> absoluteAmount,
                        category |-> "pendiente",
                        categoryOverride |-> Undefined,
                        account |-> "checking",
                        type |-> IF amount.value < 0 THEN "expense" ELSE "income" ])

\* the body of the try block of transformToTransactions for one row:
\* the transaction built, or Throw when a conversion throws
buildTransaction(row) ==
  LET date   == convertDate(row.valorDate)
      fecha  == IF row.fecha # << >> THEN convertDate(row.fecha) ELSE date
      amount == parseAmount(row.importe)
  IN  IF ~date.ok \/ ~fecha.ok \/ ~amount.ok THEN Throw
      ELSE LET absoluteAmount == abs(amount.value)
           IN  Return([ id |-> generateId(date.value, fecha.value, row.concepto,
                                          row.movimiento, absoluteAmount,
                                          row.disponible),
                        date |-> date.value,
                        description |-> row.concepto,
                        descriptionOverride |-> Undefined,
                        amount |-> absoluteAmount,
                        category |-> "pendiente",
                        categoryOverride |-> Undefined,
                        account |-> "checking",
                        type |-> IF amount.value < 0 THEN "expense" ELSE "income" ])

\* variant of transformToTransactions: the first row that throws ends the batch
RECURSIVE transformUntilFailure(_)
transformUntilFailure(csvRows) ==
  IF csvRows = << >> THEN << >>
  ELSE LET built == buildTransaction(Head(csvRows))
       IN  IF built.ok THEN << built.value >> \o transformUntilFailure(Tail(csvRows))
           ELSE << >>

RECURSIVE transformToTransactions(_)
transformToTransactions(csvRows) ==
  IF csvRows = << >> THEN << >>
  ELSE LET built == buildTransaction(Head(csvRows))
       IN  (IF built.ok THEN << built.value >> ELSE << >>)
             \o transformToTransactions(Tail(csvRows))

-----------------------------------------------------------------------------
(* CSV row extractor (parseCSV) and file discovery (getCSVFiles)           *)

\* Array.prototype.slice(k): the elements after the first k
slice(a, k) == IF Len(a) <= k THEN << >> ELSE SubSeq(a, k + 1, Len(a))

\* columns[i]?.trim() with i counted from 0: Undefined past the end
columnTrim(columns, i) ==
  IF i + 1 <= Len(columns) THEN Some(trim(columns[i + 1])) ELSE Undefined

\* `x || ''`
orEmpty(opt) == IF Truthy(opt) THEN opt[1] ELSE << >>

\* the body of the for loop of parseCSV for one line: the rows it pushes
rowsOfLine(line) ==
  LET columns   == split(line, ";")
      valorDate == columnTrim(columns, 1)
      concepto  == columnTrim(columns, 3)
      importe   == columnTrim(columns, 5)
  IN  IF trim(line) = << >> THEN << >>
      ELSE IF Len(columns) < 6 THEN << >>
      ELSE IF ~Truthy(valorDate) \/ ~Truthy(concepto) \/ ~Truthy(importe)
        THEN << >>
      ELSE << [ valorDate  |-> valorDate[1],
                fecha      |-> orEmpty(columnTrim(columns, 2)),
                concepto   |-> concepto[1],
                movimiento |-> orEmpty(columnTrim(columns, 4)),
                importe    |-> importe[1],
                disponible |-> orEmpty(columnTrim(columns, 7)) ] >>

RECURSIVE rowsOfLines(_)
rowsOfLines(dataLines) ==
  IF dataLines = << >> THEN << >>
  ELSE rowsOfLine(Head(dataLines)) \o rowsOfLines(Tail(dataLines))

\* variant of parseCSV: four lines are taken for the header
parseCSVFourLines(content) == rowsOfLines(slice(split(content, "\n"), 4))

\* parseCSV, given the content readFileSync returns
parseCSV(content) == rowsOfLines(slice(split(content, "\n"), 5))

\* UTF-16 code unit order of the characters file names are made of
CharOrder == << "." >> \o DigitChars \o UpperChars \o << "_" >> \o LowerChars

CharRanks == [ c \in { CharOrder[i] : i \in DOMAIN CharOrder } |->
                 CHOOSE i \in DOMAIN CharOrder : CharOrder[i] = c ]

CharRank(c) == CharRanks[c]

\* a < b as Array.prototype.sort() compares strings: by code units
RECURSIVE stringLess(_, _)
stringLess(a, b) ==
  IF b = << >> THEN FALSE
  ELSE IF a = << >> THEN TRUE
  ELSE IF Head(a) # Head(b) THEN CharRank(Head(a)) < CharRank(Head(b))
  ELSE stringLess(Tail(a), Tail(b))

\* path.extname: from the last "." on ("" when there is none or it leads)
RECURSIVE lastDot(_, _)
lastDot(name, i) == IF i = 0 THEN 0 ELSE IF name[i] = "." THEN i ELSE lastDot(name, i - 1)

extname(name) ==
  LET d == lastDot(name, Len(name))
  IN  IF d <= 1 THEN << >> ELSE SubSeq(name, d, Len(name))

\* .sort() of a set of distinct names
RECURSIVE sortNames(_)
sortNames(names) ==
  IF names = {} THEN << >>
  ELSE LET first == CHOOSE n \in names : \A m \in names \ { n } : stringLess(n, m)
       IN  << first >> \o sortNames(names \ { first })

\* getCSVFiles, given the names readdirSync returns
getCSVFiles(dirNames) ==
  sortNames({ n \in dirNames : toLowerCase(extname(n)) = << ".", "c", "s", "v" >> })

-----------------------------------------------------------------------------
(* Merge/reconciliation engine (mergeTransactions)                         *)

\* days from 1970-01-01 to the civil date y-m-d (a day past the end of the
\* month runs into the next month, as Date does)
daysFromCivil(y, m, d) ==
  LET yy  == IF m <= 2 THEN y - 1 ELSE y
      era == yy \div 400
      yoe == yy - era * 400
      mp  == (m + 9) % 12
      doy == (153 * mp + 2) \div 5 + d - 1
      doe == yoe * 365 + yoe \div 4 - yoe \div 100 + doy
  IN  era * 146097 + doe - 719468

\* the time of the date of year y, month m and day d, NaN when the month
\* or the day is out of range
timeOf(y, m, d) ==
  IF m \in 1 .. 12 /\ d \in 1 .. 31 THEN Num(daysFromCivil(y, m, d)) ELSE NaN

\* new Date(s).getTime() for a date-only string: the UTC time of YYYY-MM-DD
\* with month 01..12 and day 01..31, NaN otherwise.  The time is counted in
\* days (the milliseconds are 86400000 times that, which changes the sign of
\* no difference).
getTime(s) ==
  IF /\ Len(s) = 10
     /\ s[5] = "-" /\ s[8] = "-"
     /\ \A i \in { 1, 2, 3, 4, 6, 7, 9, 10 } : IsDigit(s[i])
  THEN timeOf(digitsValue(SubSeq(s, 1, 4)), digitsValue(SubSeq(s, 6, 7)),
              digitsValue(SubSeq(s, 9, 10)))
  ELSE NaN

\* the comparator handed to merged.sort: dateB - dateA, which is NaN as soon
\* as one of the dates does not parse
timeDifference(dateA, dateB) ==
  IF dateA.nan \/ dateB.nan THEN NaN
  ELSE IF dateB.v # dateA.v THEN Num(dateB.v - dateA.v)
  ELSE Num(0)

compareDates(a, b) == timeDifference(getTime(a.date), getTime(b.date))

\* Array.prototype.sort calls the comparator and reads NaN as 0
nanAsZero(v) == IF v.nan THEN 0 ELSE v.v

sortCompare(x, y) == nanAsZero(compareDates(x, y))

\* Array.prototype.sort as Node runs it on an array shorter than 64: the
\* leading run is found (and reversed when strictly descending), then the
\* rest is inserted by binary insertion.
RECURSIVE runEnd(_, _, _)
runEnd(a, idx, descending) ==
  IF idx > Len(a) THEN idx - 1
  ELSE LET order == sortCompare(a[idx], a[idx - 1])
       IN  IF (descending /\ order >= 0) \/ (~descending /\ order < 0)
             THEN idx - 1
             ELSE runEnd(a, idx + 1, descending)

reverse(a) == [ i \in DOMAIN a |-> a[Len(a) + 1 - i] ]

RECURSIVE insertionPoint(_, _, _, _)
insertionPoint(a, pivot, left, right) ==
  IF left >= right THEN left
  ELSE LET mid == left + ((right - left) \div 2)
       IN  IF sortCompare(pivot, a[mid]) < 0
             THEN insertionPoint(a, pivot, left, mid)
             ELSE insertionPoint(a, pivot, mid + 1, right)

RECURSIVE binaryInsertionSort(_, _)
binaryInsertionSort(a, start) ==
  IF start > Len(a) THEN a
  ELSE LET pivot == a[start]
           left  == insertionPoint(a, pivot, 1, start)
       IN  binaryInsertionSort(
             SubSeq(a, 1, left - 1) \o << pivot >> \o SubSeq(a, left, start - 1)
               \o SubSeq(a, start + 1, Len(a)),
             start + 1)

arraySort(a) ==
  IF Len(a) < 2 THEN a
  ELSE LET descending == sortCompare(a[2], a[1]) < 0
           runLength  == runEnd(a, 3, descending)
           made       == IF descending
                           THEN reverse(SubSeq(a, 1, runLength))
                                  \o SubSeq(a, runLength + 1, Len(a))
                           ELSE a
       IN  binaryInsertionSort(made, runLength + 1)

\* addNew without the test of existingIds: every incoming transaction is
\* pushed
RECURSIVE addNewAll(_, _, _)
addNewAll(merged, existingIds, newTransactions) ==
  IF newTransactions = << >> THEN merged
  ELSE addNewAll(Append(merged, Head(newTransactions)), existingIds,
                 Tail(newTransactions))

\* addNew with the incoming transaction taking the place of the record that
\* holds its id
RECURSIVE addNewLastWins(_, _, _)
addNewLastWins(merged, existingIds, newTransactions) ==
  IF newTransactions = << >> THEN merged
  ELSE LET transaction == Head(newTransactions)
       IN  IF transaction.id \notin existingIds
             THEN addNewLastWins(Append(merged, transaction),
                                 existingIds \cup { transaction.id },
                                 Tail(newTransactions))
             ELSE addNewLastWins(
                    [ k \in DOMAIN merged |->
                        IF merged[k].id = transaction.id THEN transaction
                        ELSE merged[k] ],
                    existingIds, Tail(newTransactions))

\* the for loop of mergeTransactions: merged and existingIds after it
RECURSIVE addNew(_, _, _)
addNew(merged, existingIds, newTransactions) ==
  IF newTransactions = << >> THEN merged
  ELSE LET transaction == Head(newTransactions)
       IN  IF transaction.id \notin existingIds
             THEN addNew(Append(merged, transaction),
                         existingIds \cup { transaction.id },
                         Tail(newTransactions))
             ELSE addNew(merged, existingIds, Tail(newTransactions))

\* mergedUnsorted with existingIds left empty
mergedUnsortedNoIds(existing, newTransactions) ==
  addNew(existing, {}, newTransactions)

\* merged before merged.sort
mergedUnsorted(existing, newTransactions) ==
  addNew(existing, { existing[i].id : i \in DOMAIN existing }, newTransactions)

\* mergeTransactions as a plain concatenation that is sorted
mergeTransactionsAppend(existing, newTransactions) ==
  arraySort(existing \o newTransactions)

\* variant of mergeTransactions: the loaded records are left out
mergeTransactionsNewOnly(existing, newTransactions) ==
  arraySort(newTransactions)

mergeTransactions(existing, newTransactions) ==
  arraySort(mergedUnsorted(existing, newTransactions))

-----------------------------------------------------------------------------
(* The persisted store (generateJSON, parseExistingTransactions)           *)

\* The store file is [exists, wellFormed, content]: content is the list of
\* the JSON objects of the file, each a function from its keys to the JSON
\* text of their values, and wellFormed tells whether JSON.parse accepts the
\* text of the file.  The values of category, account and type are
\* identifiers of letters, which JSON writes and reads as they are; they are
\* kept as they are.

\* the characters JSON.stringify writes behind a backslash
Escaped == { "\"", "\\" }

RECURSIVE escape(_)
escape(s) ==
  IF s = << >> THEN << >>
  ELSE (IF Head(s) \in Escaped THEN << "\\", Head(s) >> ELSE << Head(s) >>)
         \o escape(Tail(s))

\* variant of stringifyString that escapes nothing
stringifyStringRaw(s) == << "\"" >> \o s \o << "\"" >>

\* JSON.stringify of a string
stringifyString(s) ==
  << "\"" >> \o (IF \E i \in DOMAIN s : s[i] \in Escaped THEN escape(s) ELSE s)
    \o << "\"" >>

RECURSIVE unescape(_)
unescape(s) ==
  IF s = << >> THEN << >>
  ELSE IF Head(s) = "\\" /\ Len(s) >= 2
    THEN << s[2] >> \o unescape(SubSeq(s, 3, Len(s)))
  ELSE << Head(s) >> \o unescape(Tail(s))

\* JSON.parse of the text of a string
parseString(text) ==
  LET inner == SubSeq(text, 2, Len(text) - 1)
  IN  IF \E i \in DOMAIN inner : inner[i] = "\\" THEN unescape(inner) ELSE inner

\* JSON.stringify of a finite number
stringifyNumber(v) == numberToString(v)

\* JSON.parse of the text of a number
parseNumber(text) == parseFloat(text).v

\* item.key: Undefined when the object has no such key
member(item, key) == IF key \in DOMAIN item THEN Some(item[key]) ELSE Undefined

\* the object generateJSON makes of one transaction: the override keys are
\* left out when undefined or blank
jsonObject(t) ==
  LET obj == [ id |-> stringifyString(t.id), date |-> stringifyString(t.date),
               description |-> stringifyString(t.description),
               amount |-> stringifyNumber(t.amount), category |-> t.category,
               account |-> t.account, type |-> t.type ]
      withCategory ==
        IF NonBlank(t.categoryOverride)
          THEN obj @@ ("categoryOverride" :> stringifyString(t.categoryOverride[1]))
          ELSE obj
  IN  IF NonBlank(t.descriptionOverride)
        THEN withCategory
               @@ ("descriptionOverride" :> stringifyString(t.descriptionOverride[1]))
        ELSE withCategory

\* generateJSON: JSON.stringify of the list of objects
generateJSON(transactions) ==
  [ i \in DOMAIN transactions |-> jsonObject(transactions[i]) ]

\* item.key of a parsed object whose key, if there, holds a string
stringMember(item, key) ==
  IF key \in DOMAIN item THEN Some(parseString(item[key])) ELSE Undefined

\* the callback of jsonData.map in parseExistingTransactions
parsedItem(item) ==
  [ id |-> parseString(item.id), date |-> parseString(item.date),
    description |-> parseString(item.description),
    descriptionOverride |-> stringMember(item, "descriptionOverride"),
    amount |-> parseNumber(item.amount), category |-> item.category,
    categoryOverride |-> stringMember(item, "categoryOverride"),
    account |-> item.account, type |-> item.type ]

AbsentStore == [ exists |-> FALSE, wellFormed |-> FALSE, content |-> << >> ]

\* writeFileSync(jsonOutputPath, jsonContent)
WrittenStore(jsonContent) ==
  [ exists |-> TRUE, wellFormed |-> TRUE, content |-> jsonContent ]

\* parseExistingTransactions: no file gives [], and so does, after a
\* warning, a file JSON.parse throws on
parseExistingTransactions(file) ==
  IF ~file.exists THEN << >>
  ELSE IF ~file.wellFormed THEN << >>
  ELSE [ i \in DOMAIN file.content |-> parsedItem(file.content[i]) ]

-----------------------------------------------------------------------------
(* Input: the statement files of src/movements                             *)

RECURSIVE joinWith(_, _)
joinWith(parts, sep) ==
  IF parts = << >> THEN << >>
  ELSE IF Len(parts) = 1 THEN parts[1]
  ELSE parts[1] \o << sep >> \o joinWith(Tail(parts), sep)

\* one statement line: its columns joined with ";"
Line(columns) == joinWith(columns, ";")

\* a file: its lines joined with "\n"
FileText(lines) == joinWith(lines, "\n")

\* the five lines a statement starts with
HeaderLines ==
  << <<"M","o","v","i","m","i","e","n","t","o","s">>,
     <<"T","i","t","u","l","a","r">>,
     <<"I","B","A","N">>,
     << >>,
     Line(<< <<"N">>, <<"F",".","V","a","l","o","r">>, <<"F","e","c","h","a">>,
             <<"C","o","n","c","e","p","t","o">>,
             <<"M","o","v","i","m","i","e","n","t","o">>,
             <<"I","m","p","o","r","t","e">>, <<"D","i","v","i","s","a">>,
             <<"D","i","s","p","o","n","i","b","l","e">> >>) >>

\* expense of 5 May 2024 (the spec's example row, a later date)
RowB ==
  Line(<< <<"0","3">>,
           <<"0","5","/","0","5","/","2","0","2","4">>,
           <<"0","5","/","0","5","/","2","0","2","4">>,
           <<"S","U","P","E","R","M","A","R","T"," ","M","A","D","R","I","D">>,
           <<"C","O","M","P","R","A"," ","T","A","R","J","E","T","A">>,
           <<"-","4","5",",","3","0">>,
           << >>,
           <<"1","2","3","4",",","5","6">> >>)

\* income of 2 April 2024
RowP ==
  Line(<< <<"0","5">>,
           <<"0","2","/","0","4","/","2","0","2","4">>,
           <<"0","2","/","0","4","/","2","0","2","4">>,
           <<"P","A","Y","R","O","L","L"," ","A","C","M","E">>,
           <<"T","R","A","N","S","F","E","R">>,
           <<"1","5","0","0">>,
           << >>,
           <<"2","7","0","0">> >>)

\* expense of 31 December 2023, the oldest date; no rule matches it
RowO ==
  Line(<< <<"0","0">>,
           <<"3","1","/","1","2","/","2","0","2","3">>,
           <<"3","1","/","1","2","/","2","0","2","3">>,
           <<"C","a","s","h"," ","w","i","t","h","d","r","a","w","a","l">>,
           <<"C","A","R","D">>,
           <<"-","4","0">>,
           << >>,
           <<"2","0","0","0">> >>)

\* a value date that splits into three parts but names month 13; no secondary date
RowX ==
  Line(<< <<"0","2">>,
           <<"0","1","/","1","3","/","2","0","2","4">>,
           << >>,
           <<"x","y","z"," ","w","o","r","k","s","h","o","p">>,
           <<"C","A","R","D">>,
           <<"-","2","0",",","5">>,
           << >>,
           <<"1","1","8","0">> >>)

\* expense of 1 January 2024
RowA ==
  Line(<< <<"0","1">>,
           <<"0","1","/","0","1","/","2","0","2","4">>,
           <<"0","1","/","0","1","/","2","0","2","4">>,
           <<"R","e","n","t"," ","J","a","n","u","a","r","y">>,
           <<"T","R","A","N","S","F","E","R">>,
           <<"-","8","0","0">>,
           << >>,
           <<"1","2","0","0",",","5","0">> >>)

\* expense of 1 March 2024 whose description names Salary and Rent keywords
RowN ==
  Line(<< <<"0","6">>,
           <<"0","1","/","0","3","/","2","0","2","4">>,
           <<"0","1","/","0","3","/","2","0","2","4">>,
           <<"S","a","l","a","r","y"," ","a","d","v","a","n","c","e"," ","r","e","n","t">>,
           <<"T","R","A","N","S","F","E","R">>,
           <<"-","1","0","0">>,
           << >>,
           <<"9","0","0">> >>)

\* expense of 1 January 2024 written without leading zeros: the same date as RowA
RowC ==
  Line(<< <<"0","4">>,
           <<"1","/","1","/","2","0","2","4">>,
           <<"0","1","/","0","1","/","2","0","2","4">>,
           <<"C","a","f","e"," ","M","a","r","k","e","t">>,
           <<"C","A","R","D">>,
           <<"-","3",",","2">>,
           << >>,
           <<"1","1","9","7",",","3","0">> >>)

\* RowB with the amount positive
RowBIncome ==
  Line(<< <<"0","3">>,
           <<"0","5","/","0","5","/","2","0","2","4">>,
           <<"0","5","/","0","5","/","2","0","2","4">>,
           <<"S","U","P","E","R","M","A","R","T"," ","M","A","D","R","I","D">>,
           <<"C","O","M","P","R","A"," ","T","A","R","J","E","T","A">>,
           <<"4","5",",","3","0">>,
           << >>,
           <<"1","2","3","4",",","5","6">> >>)

\* RowB with padded value date and no secondary date
RowBNoFecha ==
  Line(<< <<"0","3">>,
           <<" ","5","/","5","/","2","0","2","4"," ">>,
           << >>,
           <<"S","U","P","E","R","M","A","R","T"," ","M","A","D","R","I","D">>,
           <<"C","O","M","P","R","A"," ","T","A","R","J","E","T","A">>,
           <<"-","4","5",",","3","0">>,
           << >>,
           <<"1","2","3","4",",","5","6">> >>)

\* an amount that is not a number
RowBadAmount ==
  Line(<< <<"0","7">>,
           <<"0","3","/","0","4","/","2","0","2","4">>,
           << >>,
           <<"F","e","e">>,
           << >>,
           <<"a","b","c">>,
           << >>,
           <<"5">> >>)

\* a value date without slashes
RowBadDate ==
  Line(<< <<"0","8">>,
           <<"2","0","2","4","-","0","4","-","0","3">>,
           << >>,
           <<"O","t","h","e","r">>,
           << >>,
           <<"1">>,
           << >>,
           <<"7">> >>)

\* no description
RowNoConcept ==
  Line(<< <<"0","9">>,
           <<"0","1","/","0","1","/","2","0","2","4">>,
           << >>,
           << >>,
           << >>,
           <<"5">>,
           << >>,
           <<"1">> >>)

\* a line with fewer than six columns
RowShort == Line(<< <<"1","0">>, <<"0","1","/","0","1","/","2","0","2","4">>, <<"x">> >>)

FileA == <<"a",".","c","s","v">>

FileB == <<"b",".","c","s","v">>

FileNotes == <<"n","o","t","e","s",".","t","x","t">>

\* the names src/movements may hold at a run
DirectoryNames == { FileA, FileB, FileNotes }

ContentA == FileText(HeaderLines \o << RowB, RowP, << >>, RowO, RowX, RowShort >>)

ContentB ==
  FileText(HeaderLines \o << RowA, RowN, RowC, RowBIncome, RowBadAmount, RowA,
                             RowBNoFecha, RowBadDate, RowNoConcept >>)

\* readFileSync(csvPath, 'utf-8')
readFileSync(name) ==
  IF name = FileA THEN ContentA
  ELSE IF name = FileB THEN ContentB
  ELSE << >>

\* the values a manual edit gives an override: a category id, and a blank
OverrideValues == { <<"o","t","h","e","r">>, << " " >> }

OverrideKeys == { "categoryOverride", "descriptionOverride" }

-----------------------------------------------------------------------------
(* Categorization rules (scripts/categorization-rules.ts)                  *)

getCategorizationRules ==
  <<
    [ name |-> "Salary", category |-> "salary", incomeOnly |-> TRUE,
      keywords |-> <<
        <<"p","a","y","r","o","l","l">>,
        <<"s","a","l","a","r","y">>,
        <<"p","a","y","c","h","e","c","k">>,
        <<"d","i","r","e","c","t"," ","d","e","p","o","s","i","t">> >> ],
    [ name |-> "Rent", category |-> "rent", incomeOnly |-> FALSE,
      keywords |-> <<
        <<"r","e","n","t">>,
        <<"l","e","a","s","e">> >> ],
    [ name |-> "Groceries", category |-> "groceries", incomeOnly |-> FALSE,
      keywords |-> <<
        <<"g","r","o","c","e","r","y">>,
        <<"m","a","r","k","e","t">>,
        <<"s","u","p","e","r","m","a","r","t">>,
        <<"f","r","e","s","h"," ","m","a","r","t">> >> ],
    [ name |-> "Dining", category |-> "dining", incomeOnly |-> FALSE,
      keywords |-> <<
        <<"c","a","f","e">>,
        <<"r","e","s","t","a","u","r","a","n","t">>,
        <<"b","i","s","t","r","o">>,
        <<"d","i","n","e","r">>,
        <<"t","a","k","e","o","u","t">> >> ],
    [ name |-> "Transport", category |-> "transport", incomeOnly |-> FALSE,
      keywords |-> <<
        <<"t","r","a","n","s","i","t">>,
        <<"m","e","t","r","o">>,
        <<"b","u","s">>,
        <<"r","a","i","l">>,
        <<"u","b","e","r">>,
        <<"l","y","f","t">>,
        <<"f","u","e","l">>,
        <<"g","a","s">> >> ],
    [ name |-> "Utilities", category |-> "utilities", incomeOnly |-> FALSE,
      keywords |-> <<
        <<"e","l","e","c","t","r","i","c">>,
        <<"w","a","t","e","r">>,
        <<"u","t","i","l","i","t","y">>,
        <<"i","n","t","e","r","n","e","t">>,
        <<"p","h","o","n","e">> >> ],
    [ name |-> "Subscriptions", category |-> "subscriptions", incomeOnly |-> FALSE,
      keywords |-> <<
        <<"s","u","b","s","c","r","i","p","t","i","o","n">>,
        <<"s","t","r","e","a","m","i","n","g">>,
        <<"m","u","s","i","c">>,
        <<"c","l","o","u","d">>,
        <<"s","o","f","t","w","a","r","e">> >> ],
    [ name |-> "Shopping", category |-> "shopping", incomeOnly |-> FALSE,
      keywords |-> <<
        <<"s","t","o","r","e">>,
        <<"o","n","l","i","n","e"," ","o","r","d","e","r">>,
        <<"r","e","t","a","i","l">>,
        <<"s","h","o","p">> >> ],
    [ name |-> "Entertainment", category |-> "entertainment", incomeOnly |-> FALSE,
      keywords |-> <<
        <<"c","i","n","e","m","a">>,
        <<"m","o","v","i","e">>,
        <<"c","o","n","c","e","r","t">>,
        <<"t","h","e","a","t","e","r">>,
        <<"g","a","m","e">> >> ],
    [ name |-> "Health", category |-> "health", incomeOnly |-> FALSE,
      keywords |-> <<
        <<"p","h","a","r","m","a","c","y">>,
        <<"c","l","i","n","i","c">>,
        <<"h","o","s","p","i","t","a","l">>,
        <<"d","e","n","t","i","s","t">> >> ],
    [ name |-> "Travel", category |-> "travel", incomeOnly |-> FALSE,
      keywords |-> <<
        <<"a","i","r","l","i","n","e","s">>,
        <<"h","o","t","e","l">>,
        <<"a","i","r","b","n","b">>,
        <<"b","o","o","k","i","n","g">> >> ],
    [ name |-> "Education", category |-> "education", incomeOnly |-> FALSE,
      keywords |-> <<
        <<"c","o","u","r","s","e">>,
        <<"t","u","i","t","i","o","n">>,
        <<"a","c","a","d","e","m","y">>,
        <<"w","o","r","k","s","h","o","p">> >> ],
    [ name |-> "Pets", category |-> "pets", incomeOnly |-> FALSE,
      keywords |-> <<
        <<"p","e","t">>,
        <<"v","e","t">>,
        <<"p","e","t"," ","f","o","o","d">> >> ],
    [ name |-> "Savings", category |-> "savings", incomeOnly |-> FALSE,
      keywords |-> <<
        <<"t","r","a","n","s","f","e","r"," ","t","o"," ","s","a","v","i","n","g","s">>,
        <<"s","a","v","i","n","g","s"," ","t","r","a","n","s","f","e","r">> >> ]
  >>

\* src/config/categories.ts: the ids of CATEGORIES
CATEGORIES ==
  { "salary", "rent", "groceries", "dining", "transport", "utilities",
    "entertainment", "health", "travel", "shopping", "education", "pets",
    "subscriptions", "savings", "other", "pendiente" }

\* containsAny(description, keywords)
containsAny(description, keywords) ==
  LET lowerDescription == toLowerCase(description)
  IN  \E i \in DOMAIN keywords :
        includes(lowerDescription, toLowerCase(keywords[i]))

\* rule.match(transaction): the Salary rule also requires type income
RuleMatch(rule, transaction) ==
  /\ rule.incomeOnly => transaction.type = "income"
  /\ containsAny(transaction.description, rule.keywords)

\* categorizeFrom with the loop running on after a match: the last rule
\* that matches gives the category
RECURSIVE categorizeFromLast(_, _, _)
categorizeFromLast(rules, i, transaction) ==
  IF i > Len(rules) THEN "pendiente"
  ELSE LET later == categorizeFromLast(rules, i + 1, transaction)
       IN  IF later # "pendiente" THEN later
           ELSE IF RuleMatch(rules[i], transaction) THEN rules[i].category
           ELSE "pendiente"

\* categorizeFrom with the fallback spelled "pending"
RECURSIVE categorizeFromPending(_, _, _)
categorizeFromPending(rules, i, transaction) ==
  IF i > Len(rules) THEN "pending"
  ELSE IF RuleMatch(rules[i], transaction) THEN rules[i].category
  ELSE categorizeFromPending(rules, i + 1, transaction)

\* the for loop of categorizeTransaction, from rule i on
RECURSIVE categorizeFrom(_, _, _)
categorizeFrom(rules, i, transaction) ==
  IF i > Len(rules) THEN "pendiente"
  ELSE IF RuleMatch(rules[i], transaction) THEN rules[i].category
  ELSE categorizeFrom(rules, i + 1, transaction)

\* the descriptions of the rows of the statement files, with either type
statementInputs ==
  UNION { { [ description |-> parseCSV(readFileSync(name))[k].concepto,
              type |-> type ] :
              k \in DOMAIN parseCSV(readFileSync(name)),
              type \in { "income", "expense" } } : name \in DirectoryNames }

\* the category the loop gives each of them; rule.match reads nothing of a
\* transaction but its description and type, so the loop is run once for
\* each and its result kept
statementCategories ==
  [ input \in statementInputs |-> categorizeFrom(getCategorizationRules, 1, input) ]

categorizeTransaction(transaction) ==
  LET input == [ description |-> transaction.description,
                 type |-> transaction.type ]
  IN  IF input \in statementInputs THEN statementCategories[input]
      ELSE categorizeFrom(getCategorizationRules, 1, transaction)

\* applyRulesToOne without its first test: an override does not stop the
\* rules
applyRulesToOneNoOverride(transaction, preserveManualCategories) ==
  IF preserveManualCategories /\ transaction.category # "pendiente"
    THEN transaction
  ELSE [ transaction EXCEPT !.category = categorizeTransaction(transaction) ]

\* applyRulesToOne that reads preserveManualCategories as true whatever it is
applyRulesToOneKeepCategorized(transaction, preserveManualCategories) ==
  IF NonBlank(transaction.categoryOverride) THEN transaction
  ELSE IF transaction.category # "pendiente" THEN transaction
  ELSE [ transaction EXCEPT !.category = categorizeTransaction(transaction) ]

\* the callback of transactions.map in applyRulesToTransactions
applyRulesToOne(transaction, preserveManualCategories) ==
  IF NonBlank(transaction.categoryOverride) THEN transaction
  ELSE IF preserveManualCategories /\ transaction.category # "pendiente"
    THEN transaction
  ELSE [ transaction EXCEPT !.category = categorizeTransaction(transaction) ]

applyRulesToTransactions(transactions, preserveManualCategories) ==
  [ i \in DOMAIN transactions |->
      applyRulesToOne(transactions[i], preserveManualCategories) ]

-----------------------------------------------------------------------------
(* The pipeline: main() of scripts/parse-transactions.ts                   *)

\* runs of main() and manual edits a behaviour holds at most
MaxRuns == 2

MaxEdits == 1

\* lastRun before any run: outcome is "none", then "running", and at the
\* end of a run "nofiles" (main returned early) or "written"; files are the
\* files of the run, before the store file main loaded, editedBefore and
\* editedAfter whether a manual edit came between the previous run and this
\* one, and since this one; prev keeps the same of the run before; imported
\* are the ids of the transactions built from the files of the runs that
\* wrote the store, and corrupted tells whether the store file was ever left
\* unparsable
NoRun ==
  [ outcome |-> "none", files |-> << >>, before |-> AbsentStore,
    editedBefore |-> FALSE, editedAfter |-> FALSE,
    prev |-> [ outcome |-> "none", files |-> << >>, beforeExists |-> FALSE ],
    imported |-> {}, corrupted |-> FALSE ]

\* variant of addUnseen: a transaction whose id was seen takes the place of
\* the one collected under that id
RECURSIVE addUnseenLastWins(_, _, _)
addUnseenLastWins(all, seen, transactions) ==
  IF transactions = << >> THEN [ all |-> all, seen |-> seen ]
  ELSE LET transaction == Head(transactions)
       IN  IF transaction.id \notin seen
             THEN addUnseenLastWins(Append(all, transaction),
                                    seen \cup { transaction.id }, Tail(transactions))
             ELSE addUnseenLastWins(
                    [ i \in DOMAIN all |->
                        IF all[i].id = transaction.id THEN transaction ELSE all[i] ],
                    seen, Tail(transactions))

\* the for loop over one file's transactions: allCSVTransactions and seenIds
RECURSIVE addUnseen(_, _, _)
addUnseen(all, seen, transactions) ==
  IF transactions = << >> THEN [ all |-> all, seen |-> seen ]
  ELSE LET transaction == Head(transactions)
       IN  IF transaction.id \notin seen
             THEN addUnseen(Append(all, transaction),
                            seen \cup { transaction.id }, Tail(transactions))
             ELSE addUnseen(all, seen, Tail(transactions))

\* variant of categorizedTransactionsOf: the merged list is categorized with
\* preserveManualCategories true
categorizedTransactionsPreserving(existing, allCSV) ==
  LET categorizedNewTransactions == applyRulesToTransactions(allCSV, FALSE)
      allTransactions == mergeTransactions(existing, categorizedNewTransactions)
  IN  applyRulesToTransactions(allTransactions, TRUE)

\* variant of categorizedTransactionsOf: of the records of one id only the
\* first is kept
categorizedTransactionsUnique(existing, allCSV) ==
  LET categorizedNewTransactions == applyRulesToTransactions(allCSV, FALSE)
      allTransactions == mergeTransactions(existing, categorizedNewTransactions)
  IN  addUnseen(<< >>, {}, applyRulesToTransactions(allTransactions, FALSE)).all

\* categorizedTransactions of main, from what it loaded and collected
categorizedTransactionsOf(existing, allCSV) ==
  LET categorizedNewTransactions == applyRulesToTransactions(allCSV, FALSE)
      allTransactions == mergeTransactions(existing, categorizedNewTransactions)
  IN  applyRulesToTransactions(allTransactions, FALSE)

\* main, lines 367-373: the number the warning reports, 0 when main logs
\* that all ids are unique
duplicateIds(categorizedTransactions) ==
  Len(categorizedTransactions)
    - Cardinality({ categorizedTransactions[i].id : i \in DOMAIN categorizedTransactions })

\* the second invocation before it starts
OtherIdle ==
  [ pc |-> "idle", existingTransactions |-> << >>, csvFiles |-> << >>,
    allCSVTransactions |-> << >>, seenIds |-> {} ]

InitPipeline ==
  /\ storeFile = AbsentStore
  /\ pc = "idle"
  /\ existingTransactions = << >>
  /\ csvFiles = << >>
  /\ allCSVTransactions = << >>
  /\ seenIds = {}
  /\ runs = 0
  /\ edits = 0
  /\ lastRun = NoRun
  /\ otherRun = OtherIdle
  /\ landed = {}

\* main, lines 315-319: the rows of a file and the transactions built from
\* them; a file reads the same at every run, so the value is kept per file
transactionsOfFile ==
  [ name \in DirectoryNames |->
      LET csvContent == readFileSync(name)
          csvRows    == parseCSV(csvContent)
      IN  transformToTransactions(csvRows) ]

\* the ids of the transactions built from the given files
builtIds(files) ==
  UNION { { transactionsOfFile[files[i]][k].id :
              k \in DOMAIN transactionsOfFile[files[i]] } : i \in DOMAIN files }

\* main, lines 288-309: load the store, list the files, return if none
MainLoad ==
  /\ pc = "idle"
  /\ runs < MaxRuns
  /\ existingTransactions' = parseExistingTransactions(storeFile)
  /\ \E dirNames \in SUBSET DirectoryNames :
       LET files == getCSVFiles(dirNames)
       IN  /\ csvFiles' = files
           /\ pc' = IF files = << >> THEN "idle" ELSE "parsing"
           /\ lastRun' =
                [ outcome |-> IF files = << >> THEN "nofiles" ELSE "running",
                  files |-> files,
                  before |-> storeFile,
                  editedBefore |-> lastRun.editedAfter,
                  editedAfter |-> FALSE,
                  prev |-> [ outcome |-> lastRun.outcome,
                             files |-> lastRun.files,
                             beforeExists |-> lastRun.before.exists ],
                  imported |-> lastRun.imported,
                  corrupted |-> lastRun.corrupted ]
  /\ allCSVTransactions' = << >>
  /\ seenIds' = {}
  /\ runs' = runs + 1
  /\ UNCHANGED << storeFile, edits, fnVars, raceVars >>

\* main, lines 311-337: one turn of the loop over the files
MainParseFile ==
  /\ pc = "parsing"
  /\ csvFiles # << >>
  /\ LET transactions == transactionsOfFile[Head(csvFiles)]
         added        == addUnseen(allCSVTransactions, seenIds, transactions)
     IN  /\ allCSVTransactions' = added.all
         /\ seenIds' = added.seen
  /\ csvFiles' = Tail(csvFiles)
  /\ UNCHANGED << storeFile, pc, existingTransactions, runs, edits, lastRun, fnVars, raceVars >>

\* variant of MainFinish: the store is written while files are still to be
\* parsed, and the run goes on
MainFinishEarly ==
  /\ pc = "parsing"
  /\ LET categorizedTransactions ==
           categorizedTransactionsOf(existingTransactions, allCSVTransactions)
         jsonContent == generateJSON(categorizedTransactions)
     IN  storeFile' = WrittenStore(jsonContent)
  /\ lastRun' = [ lastRun EXCEPT
                     !.outcome = "written",
                     !.imported = @ \cup builtIds(lastRun.files) ]
  /\ pc' = IF csvFiles = << >> THEN "idle" ELSE "parsing"
  /\ UNCHANGED << existingTransactions, csvFiles, allCSVTransactions, seenIds,
                  runs, edits, fnVars, raceVars >>

\* variant of MainFinish: the store is read again just before the write
MainFinishReread ==
  /\ pc = "parsing"
  /\ csvFiles = << >>
  /\ LET categorizedTransactions ==
           categorizedTransactionsOf(parseExistingTransactions(storeFile),
                                     allCSVTransactions)
         jsonContent == generateJSON(categorizedTransactions)
     IN  storeFile' = WrittenStore(jsonContent)
  /\ lastRun' = [ lastRun EXCEPT
                     !.outcome = "written",
                     !.imported = @ \cup builtIds(lastRun.files) ]
  /\ pc' = "idle"
  /\ UNCHANGED << existingTransactions, csvFiles, allCSVTransactions, seenIds,
                  runs, edits, fnVars, raceVars >>

\* main, lines 339-373: categorize, merge, categorize, write the store
MainFinish ==
  /\ pc = "parsing"
  /\ csvFiles = << >>
  /\ LET categorizedTransactions ==
           categorizedTransactionsOf(existingTransactions, allCSVTransactions)
         jsonContent == generateJSON(categorizedTransactions)
     IN  storeFile' = WrittenStore(jsonContent)
  /\ lastRun' = [ lastRun EXCEPT
                     !.outcome = "written",
                     !.imported = @ \cup builtIds(lastRun.files) ]
  /\ pc' = "idle"
  /\ UNCHANGED << existingTransactions, csvFiles, allCSVTransactions, seenIds,
                  runs, edits, fnVars, raceVars >>

\* The store file is left with a text JSON.parse throws on (an edit that
\* drops a bracket, a write cut short): the records it held are no longer
\* readable.  It counts among the edits of the store.
CorruptStore ==
  /\ pc = "idle"
  /\ storeFile.exists
  /\ storeFile.wellFormed
  /\ edits < MaxEdits
  /\ runs < MaxRuns
  /\ storeFile' = [ storeFile EXCEPT !.wellFormed = FALSE ]
  /\ edits' = edits + 1
  /\ lastRun' = [ lastRun EXCEPT !.editedAfter = TRUE, !.corrupted = TRUE ]
  /\ UNCHANGED << pc, existingTransactions, csvFiles, allCSVTransactions, seenIds,
                  runs, fnVars, raceVars >>

\* An editor outside the pipeline sets one override of one stored record.
\* Runs and edits are serialized: an edit comes between two runs.
ManualEdit ==
  /\ pc = "idle"
  /\ storeFile.exists
  /\ edits < MaxEdits
  /\ runs < MaxRuns
  /\ storeFile.wellFormed
  /\ \E i \in DOMAIN storeFile.content, key \in OverrideKeys, value \in OverrideValues :
       storeFile' = [ storeFile EXCEPT
                        !.content[i] = (key :> stringifyString(value)) @@ @ ]
  /\ edits' = edits + 1
  /\ lastRun' = [ lastRun EXCEPT !.editedAfter = TRUE ]
  /\ UNCHANGED << pc, existingTransactions, csvFiles, allCSVTransactions, seenIds,
                  runs, fnVars, raceVars >>

-----------------------------------------------------------------------------
(* Two invocations of main() and an editor on one store file.  main takes  *)
(* no lock on the file: the steps of a second invocation and an edit may   *)
(* come between the load and the write of the first.                      *)

\* what is left of the record of landings when something lands: the
\* landings of the run of main() that is under way
landedNow == { e \in landed : e.run = runs }

\* second invocation of main, lines 288-309
OtherLoad ==
  /\ otherRun.pc = "idle"
  /\ \E dirNames \in SUBSET DirectoryNames :
       LET files == getCSVFiles(dirNames)
       IN  otherRun' = [ pc |-> IF files = << >> THEN "returned" ELSE "parsing",
                       existingTransactions |-> parseExistingTransactions(storeFile),
                       csvFiles |-> files,
                       allCSVTransactions |-> << >>,
                       seenIds |-> {} ]
  /\ UNCHANGED << storeFile, pc, existingTransactions, csvFiles, allCSVTransactions,
                  seenIds, runs, edits, lastRun, landed, fnVars >>

\* second invocation of main, lines 311-337: one turn of the loop
OtherParseFile ==
  /\ otherRun.pc = "parsing"
  /\ otherRun.csvFiles # << >>
  /\ LET transactions == transactionsOfFile[Head(otherRun.csvFiles)]
         added        == addUnseen(otherRun.allCSVTransactions, otherRun.seenIds,
                                   transactions)
     IN  otherRun' = [ otherRun EXCEPT !.allCSVTransactions = added.all,
                                   !.seenIds = added.seen,
                                   !.csvFiles = Tail(otherRun.csvFiles) ]
  /\ UNCHANGED << storeFile, pc, existingTransactions, csvFiles, allCSVTransactions,
                  seenIds, runs, edits, lastRun, landed, fnVars >>

\* second invocation of main, lines 339-373: it writes the store from what
\* it loaded; the write lands in the run of the first invocation when that
\* one is between its load and its write
OtherFinish ==
  /\ otherRun.pc = "parsing"
  /\ otherRun.csvFiles = << >>
  /\ LET categorizedTransactions ==
           categorizedTransactionsOf(otherRun.existingTransactions,
                                     otherRun.allCSVTransactions)
         jsonContent == generateJSON(categorizedTransactions)
         written     == WrittenStore(jsonContent)
         before      == IF storeFile.exists
                          THEN { parseString(storeFile.content[i].id) :
                                   i \in DOMAIN storeFile.content }
                          ELSE {}
         after       == { parseString(written.content[i].id) :
                            i \in DOMAIN written.content }
     IN  /\ storeFile' = written
         /\ landed' = IF pc = "parsing"
                        THEN landedNow \cup
                               { [ kind |-> "write", run |-> runs,
                                   ids |-> after \ before,
                                   key |-> "none", value |-> << >> ] }
                        ELSE landed
  /\ otherRun' = [ otherRun EXCEPT !.pc = "returned" ]
  /\ lastRun' = IF pc = "idle" THEN [ lastRun EXCEPT !.editedAfter = TRUE ]
                ELSE lastRun
  /\ UNCHANGED << pc, existingTransactions, csvFiles, allCSVTransactions, seenIds,
                  runs, edits, fnVars >>

\* The editor sets one override of one stored record while main() is
\* between its load and its write.
ConcurrentEdit ==
  /\ pc = "parsing"
  /\ storeFile.exists
  /\ storeFile.wellFormed
  /\ edits < MaxEdits
  /\ \E i \in DOMAIN storeFile.content, key \in OverrideKeys, value \in OverrideValues :
       /\ storeFile' = [ storeFile EXCEPT
                           !.content[i] = (key :> stringifyString(value)) @@ @ ]
       /\ landed' = landedNow \cup
                      { [ kind |-> "edit", run |-> runs,
                          ids |-> { parseString(storeFile.content[i].id) },
                          key |-> key, value |-> value ] }
  /\ edits' = edits + 1
  /\ UNCHANGED << pc, existingTransactions, csvFiles, allCSVTransactions, seenIds,
                  runs, lastRun, otherRun, fnVars >>

\* the first invocation starts; each of the two invocations runs main() once
MainLoadShared == runs = 0 /\ MainLoad

NextInterleaved ==
  \/ MainLoadShared \/ MainParseFile \/ MainFinish
  \/ OtherLoad \/ OtherParseFile \/ OtherFinish
  \/ ManualEdit \/ ConcurrentEdit

NoCall == [ fn |-> "none" ]

Init == InitPipeline /\ fnIn = NoCall /\ fnOut = NoCall

Next == MainLoad \/ MainParseFile \/ MainFinish \/ ManualEdit \/ CorruptStore

Spec == Init /\ [][Next]_vars

SpecInterleaved == Init /\ [][NextInterleaved]_vars

-----------------------------------------------------------------------------
(* The functions of the pipeline, each applied to one drawn input          *)

\* longest list of transactions handed to a function
MaxLen == 2

\* most words a drawn description is made of
MaxWords == 2

Range(s) == { s[i] : i \in DOMAIN s }

SeqsUpTo(S, n) == UNION { [ 1 .. k -> S ] : k \in 0 .. n }

\* the words descriptions are made of: keywords of the Salary, Rent,
\* Groceries, Dining, Transport and Education rules (the last one holds the
\* Shopping keyword "shop"), in mixed case, and a word of no rule
Words ==
  { <<"S","a","l","a","r","y">>,
    <<"r","e","n","t">>,
    <<"S","U","P","E","R","M","A","R","T">>,
    <<"c","a","f","e">>,
    <<"g","a","s">>,
    <<"w","o","r","k","s","h","o","p">>,
    <<"P","A","Y","R","O","L","L">>,
    <<"x","y","z">> }

Descriptions ==
  { joinWith(ws, " ") : ws \in SeqsUpTo(Words, MaxWords) \ { << >> } }

Date1 == <<"2","0","2","4","-","0","1","-","0","1">>

Date2 == <<"2","0","2","4","-","0","1","-","0","2">>

\* a transaction as the builder makes it, with the description and type given
transactionOf(description, type) ==
  [ id |-> << "t", "x", "_" >> \o description, date |-> Date1,
    description |-> description, descriptionOverride |-> Undefined,
    amount |-> 100, category |-> "pendiente", categoryOverride |-> Undefined,
    account |-> "checking", type |-> type ]

\* every keyword of every rule
Keywords ==
  UNION { { getCategorizationRules[r].keywords[i] :
              i \in DOMAIN getCategorizationRules[r].keywords } :
          r \in DOMAIN getCategorizationRules }

\* descriptions made of words, and descriptions that are one keyword
CategorizeCalls ==
  { [ fn |-> "categorizeTransaction", transaction |-> transactionOf(d, type) ] :
      d \in Descriptions \cup Keywords, type \in { "income", "expense" } }

\* the six arguments of generateId as transformToTransactions passes them:
\* two converted dates, the raw description, movement and balance, and the
\* absolute amount
GenerateIdCalls ==
  { [ fn |-> "generateId", valorDate |-> v, fecha |-> f, description |-> d,
      movimiento |-> m, amount |-> a, disponible |-> b ] :
      v \in { Date1, Date2 },
      f \in { Date1, Date2 },
      d \in { <<"c","a","f","e">>, <<"c","a","f","e","|">>, <<"r","e","n","t">> },
      m \in { << >>, <<"c","a","f","e">>, <<"|","c","a","f","e">> },
      a \in { 0, 5, 50, 500, 4530 },
      b \in { <<"1","2","3","4",",","5","6">>, <<"1","2","3","4",",","5">> } }

\* the transactions of both files, categorized as main categorizes a batch
categorizedSamples ==
  applyRulesToTransactions(transactionsOfFile[FileA] \o transactionsOfFile[FileB],
                           FALSE)

\* what the lists handed to mergeTransactions are drawn from: RowB and
\* RowBIncome (one id, two types), RowX (a date that does not parse), RowA
\* and RowC (one date)
MergeSamples ==
  { tr \in Range(categorizedSamples) :
      tr.description \in
        { <<"S","U","P","E","R","M","A","R","T"," ","M","A","D","R","I","D">>,
          <<"x","y","z"," ","w","o","r","k","s","h","o","p">>,
          <<"R","e","n","t"," ","J","a","n","u","a","r","y">>,
          <<"C","a","f","e"," ","M","a","r","k","e","t">> } }

distinctIds(transactions) ==
  \A i, j \in DOMAIN transactions :
     transactions[i].id = transactions[j].id => i = j

\* the store holds an id once, and main hands mergeTransactions a batch it
\* has rid of repeated ids
MergeLists == { l \in SeqsUpTo(MergeSamples, MaxLen) : distinctIds(l) }

MergeCalls ==
  { [ fn |-> "mergeTransactions", existing |-> e, newTransactions |-> n ] :
      e \in MergeLists, n \in MergeLists }

\* stored records: RowB (a rule matches) and RowO (none does), with a
\* category the rules give, the pending sentinel or one of an older catalog,
\* and with the override absent, blank or set
StoredSamples ==
  { [ tr EXCEPT !.category = c, !.categoryOverride = o ] :
      tr \in { x \in Range(categorizedSamples) :
                 /\ x.description \in
                      { <<"S","U","P","E","R","M","A","R","T"," ","M","A","D","R","I","D">>,
                        <<"C","a","s","h"," ","w","i","t","h","d","r","a","w","a","l">> }
                 /\ x.type = "expense" },
      c \in { "pendiente", "legacy" },
      o \in { Undefined, Some(<<" ">>), Some(<<"o","t","h","e","r">>) } }

ApplyRulesCalls ==
  { [ fn |-> "applyRulesToTransactions", transactions |-> l,
      preserveManualCategories |-> p ] :
      l \in SeqsUpTo(StoredSamples, MaxLen) \ { << >> }, p \in BOOLEAN }

\* main from the categorization of the batch to the write, lines 339-364,
\* on a loaded store that holds an id once and the batch of one file
MainCalls ==
  { [ fn |-> "main", existingTransactions |-> e, allCSVTransactions |-> n ] :
      e \in { l \in SeqsUpTo(StoredSamples, MaxLen) : distinctIds(l) },
      n \in { transactionsOfFile[FileA],
              addUnseen(<< >>, {}, transactionsOfFile[FileB]).all } }

\* rows as parseCSV makes them (trimmed; value date, concept and amount not
\* empty): value dates of three parts and of two, the secondary date empty,
\* good or of one part, amounts negative, zero, positive and not a number
SampleRows ==
  { [ valorDate |-> v, fecha |-> f, concepto |-> <<"c","a","f","e">>,
      movimiento |-> << >>, importe |-> a, disponible |-> <<"9","0","0">> ] :
      v \in { <<"0","5","/","0","5","/","2","0","2","4">>, <<"5","/","5">> },
      f \in { << >>, <<"0","4","/","0","5","/","2","0","2","4">>, <<"x">> },
      a \in { <<"-","4","5",",","3","0">>, <<"0">>, <<"1","2">>, <<"a","b","c">> } }

TransformCalls ==
  { [ fn |-> "transformToTransactions", csvRows |-> l ] :
      l \in SeqsUpTo(SampleRows, MaxLen) }

\* the columns of the lines statement files are made of: a full line, a line
\* of six columns, a line with padded fields that ends with "\r", an empty
\* line, a line of spaces, a line of five columns, lines whose concept,
\* value date or amount is blank, a line whose balance is blank
SampleLines ==
  LET n     == <<"0","1">>
      date  == <<"0","5","/","0","5","/","2","0","2","4">>
      cafe  == <<"c","a","f","e">>
      card  == <<"C","A","R","D">>
      neg   == <<"-","4",",","5">>
      bal   == <<"9","0","0">>
  IN  { << n, date, date, cafe, card, neg, << >>, bal >>,
        << n, date, << >>, cafe, << >>, <<"1","2">> >>,
        << n, <<" ","5","/","5","/","2","0","2","4"," ">>, <<" ">>,
           <<" ","c","a","f","e","\t">>, card, <<" ","1","2">>, << >>,
           <<" ","9","0","0","\r">> >>,
        << >>,
        << <<" "," ">> >>,
        << n, date, date, cafe, neg >>,
        << n, date, date, <<" ">>, card, neg, << >>, bal >>,
        << n, << >>, date, cafe, card, neg, << >>, bal >>,
        << n, date, date, cafe, card, <<" ">>, << >>, bal >>,
        << n, date, date, cafe, card, neg, << >>, <<" ">> >> }

\* the columns of the five lines a statement starts with
HeaderColumns ==
  << << <<"M","o","v","i","m","i","e","n","t","o","s">> >>,
     << <<"T","i","t","u","l","a","r">> >>,
     << <<"I","B","A","N">> >>,
     << >>,
     << <<"N">>, <<"F",".","V","a","l","o","r">>, <<"F","e","c","h","a">>,
        <<"C","o","n","c","e","p","t","o">>, <<"I","m","p","o","r","t","e">>,
        <<"D","i","v","i","s","a">> >> >>

\* what a file starts with: the five lines, a data line in the place of the
\* fifth, or four lines only
FileHeads ==
  { HeaderColumns,
    [ HeaderColumns EXCEPT ![5] =
        << <<"0","0">>, <<"0","1","/","0","1","/","2","0","2","4">>, << >>,
           <<"r","e","n","t">>, << >>, <<"-","8","0","0">> >> ],
    SubSeq(HeaderColumns, 1, 4) }

\* the text of the file whose lines have the given columns
contentOf(lines) == FileText([ i \in DOMAIN lines |-> Line(lines[i]) ])

ParseCSVCalls ==
  { [ fn |-> "parseCSV", lines |-> head \o l ] :
      head \in FileHeads, l \in SeqsUpTo(SampleLines, MaxLen) }

\* transactions handed to generateJSON: a plain description and one that
\* holds a quote and a backslash, amounts of 45.3 and 0.05, each override
\* absent, set, or blank (spaces, or empty)
SerializedSamples ==
  { [ id |-> <<"t","x","_">> \o d.text, date |-> Date1, description |-> d.text,
      descriptionOverride |-> do, amount |-> d.amount, category |-> "pendiente",
      categoryOverride |-> co, account |-> "checking", type |-> "expense" ] :
      d \in { [ text |-> <<"c","a","f","e">>, amount |-> 4530 ],
              [ text |-> <<"a","\"","b","\\">>, amount |-> 5 ] },
      co \in { Undefined, Some(<<"o","t","h","e","r">>), Some(<<" ">>) },
      do \in { Undefined, Some(<<"\\","\"","n">>), Some(<< >>) } }

GenerateJSONCalls ==
  { [ fn |-> "generateJSON", transactions |-> l ] :
      l \in SeqsUpTo(SerializedSamples, MaxLen) }

\* texts of the value date and date columns: dates with and without leading
\* zeros, a year of two digits, letters, a day of three digits, a fourth
\* part, a month 13, two parts, an empty part, another separator, nothing
ConvertDateCalls ==
  { [ fn |-> "convertDate", dateStr |-> s ] :
      s \in { <<"0","5","/","0","5","/","2","0","2","4">>,
              <<"5","/","5","/","2","0","2","4">>,
              <<"1","/","2","/","2","4">>,
              <<"a","/","b","/","2","0","2","4">>,
              <<"0","0","1","/","0","2","/","2","0","2","4">>,
              <<"0","1","/","0","2","/","2","0","2","4","/","9">>,
              <<"0","1","/","1","3","/","2","0","2","4">>,
              <<"5","/","5">>,
              <<"5","/","/","2","0","2","4">>,
              <<"2","0","2","4","-","0","4","-","0","3">>,
              << >> } }

\* main from the categorization of the batch to the duplicate warning, lines
\* 339-373, on a loaded store that may hold an id more than once
MainVerifyCalls ==
  { [ fn |-> "mainVerify", existingTransactions |-> e, allCSVTransactions |-> n ] :
      e \in SeqsUpTo(StoredSamples, MaxLen),
      n \in { << >>, transactionsOfFile[FileA] } }

FnCalls ==
  CategorizeCalls \cup GenerateIdCalls \cup MergeCalls \cup ApplyRulesCalls
    \cup MainCalls \cup TransformCalls \cup ParseCSVCalls \cup GenerateJSONCalls
    \cup ConvertDateCalls \cup MainVerifyCalls

Returned(value) == [ fn |-> fnIn.fn, result |-> value ]

CallCategorize ==
  /\ fnIn.fn = "categorizeTransaction"
  /\ fnOut = NoCall
  /\ fnOut' = Returned(categorizeTransaction(fnIn.transaction))
  /\ UNCHANGED << pipelineVars, fnIn >>

CallGenerateId ==
  /\ fnIn.fn = "generateId"
  /\ fnOut = NoCall
  /\ fnOut' = Returned(generateId(fnIn.valorDate, fnIn.fecha, fnIn.description,
                                  fnIn.movimiento, fnIn.amount, fnIn.disponible))
  /\ UNCHANGED << pipelineVars, fnIn >>

CallMerge ==
  /\ fnIn.fn = "mergeTransactions"
  /\ fnOut = NoCall
  /\ fnOut' = Returned(mergeTransactions(fnIn.existing, fnIn.newTransactions))
  /\ UNCHANGED << pipelineVars, fnIn >>

CallApplyRules ==
  /\ fnIn.fn = "applyRulesToTransactions"
  /\ fnOut = NoCall
  /\ fnOut' = Returned(applyRulesToTransactions(fnIn.transactions,
                                                fnIn.preserveManualCategories))
  /\ UNCHANGED << pipelineVars, fnIn >>

CallMain ==
  /\ fnIn.fn = "main"
  /\ fnOut = NoCall
  /\ fnOut' = Returned(generateJSON(
                 categorizedTransactionsOf(fnIn.existingTransactions,
                                           fnIn.allCSVTransactions)))
  /\ UNCHANGED << pipelineVars, fnIn >>

CallTransform ==
  /\ fnIn.fn = "transformToTransactions"
  /\ fnOut = NoCall
  /\ fnOut' = Returned(transformToTransactions(fnIn.csvRows))
  /\ UNCHANGED << pipelineVars, fnIn >>

CallParseCSV ==
  /\ fnIn.fn = "parseCSV"
  /\ fnOut = NoCall
  /\ fnOut' = Returned(parseCSV(contentOf(fnIn.lines)))
  /\ UNCHANGED << pipelineVars, fnIn >>

\* generateJSON, and parseExistingTransactions on the file of its output
CallGenerateJSON ==
  /\ fnIn.fn = "generateJSON"
  /\ fnOut = NoCall
  /\ LET jsonContent == generateJSON(fnIn.transactions)
     IN  fnOut' = Returned([ json |-> jsonContent,
                             parsed |-> parseExistingTransactions(
                                          WrittenStore(jsonContent)) ])
  /\ UNCHANGED << pipelineVars, fnIn >>

CallConvertDate ==
  /\ fnIn.fn = "convertDate"
  /\ fnOut = NoCall
  /\ fnOut' = Returned(convertDate(fnIn.dateStr))
  /\ UNCHANGED << pipelineVars, fnIn >>

CallMainVerify ==
  /\ fnIn.fn = "mainVerify"
  /\ fnOut = NoCall
  /\ LET categorizedTransactions ==
           categorizedTransactionsOf(fnIn.existingTransactions,
                                     fnIn.allCSVTransactions)
     IN  fnOut' = Returned([ json |-> generateJSON(categorizedTransactions),
                             warning |-> duplicateIds(categorizedTransactions) ])
  /\ UNCHANGED << pipelineVars, fnIn >>

InitFn == InitPipeline /\ fnIn \in FnCalls /\ fnOut = NoCall

NextFn ==
  \/ CallCategorize \/ CallGenerateId \/ CallMerge \/ CallApplyRules \/ CallMain
  \/ CallTransform \/ CallParseCSV \/ CallGenerateJSON \/ CallConvertDate
  \/ CallMainVerify

SpecFn == InitFn /\ [][NextFn]_vars

-----------------------------------------------------------------------------
(* Properties of the functions (SpecFn)                                    *)

idsOf(transactions) == { transactions[i].id : i \in DOMAIN transactions }

Min(S) == CHOOSE x \in S : \A y \in S : x <= y

\* the rules whose match accepts the transaction
matchingRules(transaction) ==
  { i \in DOMAIN getCategorizationRules :
      RuleMatch(getCategorizationRules[i], transaction) }

\* the rules one of whose keywords the description contains
keywordRules(transaction) ==
  { i \in DOMAIN getCategorizationRules :
      containsAny(transaction.description, getCategorizationRules[i].keywords) }

\* C1: a transaction whose categoryOverride is set and not blank comes back
\* from applyRulesToTransactions as it went in, every field, whether
\* preserveManualCategories is true or false; and the store main writes holds
\* every loaded record of that kind with the category and the override it
\* was loaded with.
C1_OverrideSanctity ==
  /\ fnOut.fn = "applyRulesToTransactions" =>
       /\ DOMAIN fnOut.result = DOMAIN fnIn.transactions
       /\ \A i \in DOMAIN fnIn.transactions :
            NonBlank(fnIn.transactions[i].categoryOverride)
              => fnOut.result[i] = fnIn.transactions[i]
  /\ fnOut.fn = "main" =>
       \A i \in DOMAIN fnIn.existingTransactions :
          LET e == fnIn.existingTransactions[i]
          IN  NonBlank(e.categoryOverride) =>
                /\ \E j \in DOMAIN fnOut.result : parseString(fnOut.result[j].id) = e.id
                /\ \A j \in DOMAIN fnOut.result :
                     parseString(fnOut.result[j].id) = e.id =>
                       /\ fnOut.result[j].category = e.category
                       /\ stringMember(fnOut.result[j], "categoryOverride")
                            = e.categoryOverride

\* main has written a store from a loaded record that holds an override and
\* a category the rules would not give it, and whose row is in the batch
C1_Witness ==
  /\ fnOut.fn = "main"
  /\ \E i \in DOMAIN fnIn.existingTransactions :
        LET e == fnIn.existingTransactions[i]
        IN  /\ NonBlank(e.categoryOverride)
            /\ e.category # categorizeTransaction(e)
            /\ e.id \in idsOf(fnIn.allCSVTransactions)
            /\ \E j \in DOMAIN fnOut.result :
                  /\ parseString(fnOut.result[j].id) = e.id
                  /\ fnOut.result[j].category = e.category

C8_FirstMatch ==
  fnOut.fn = "categorizeTransaction" =>
    LET m == matchingRules(fnIn.transaction)
    IN  Cardinality(m) >= 2 =>
          /\ fnOut.result = getCategorizationRules[Min(m)].category
          /\ \A j \in m \ { Min(m) } :
               fnOut.result # getCategorizationRules[j].category

\* an expense whose description holds a Salary keyword and keywords of two
\* later rules: the earlier of the two later rules gives the category
C8_Witness ==
  /\ fnOut.fn = "categorizeTransaction"
  /\ fnIn.transaction.type = "expense"
  /\ 1 \in keywordRules(fnIn.transaction)
  /\ Cardinality(matchingRules(fnIn.transaction)) >= 2
  /\ fnOut.result
       = getCategorizationRules[Min(matchingRules(fnIn.transaction))].category

\* C8 as stated: when the description contains a keyword of two different
\* rules, categorizeTransaction returns the category of the earlier of them.
C8_FirstKeywordRule ==
  fnOut.fn = "categorizeTransaction" =>
    LET k == keywordRules(fnIn.transaction)
    IN  Cardinality(k) >= 2 =>
          fnOut.result = getCategorizationRules[Min(k)].category

\* C9: categorizeTransaction returns an id of CATEGORIES, and returns
\* "pendiente" exactly when no rule matches; so every record the written
\* store holds without a categoryOverride has a category of CATEGORIES.
C9_CategoryResolved ==
  /\ fnOut.fn = "categorizeTransaction" =>
       /\ fnOut.result \in CATEGORIES
       /\ (fnOut.result = "pendiente")
            <=> (matchingRules(fnIn.transaction) = {})
  /\ fnOut.fn = "main" =>
       \A j \in DOMAIN fnOut.result :
          "categoryOverride" \notin DOMAIN fnOut.result[j]
            => fnOut.result[j].category \in CATEGORIES

\* main has written a store from a loaded record without an override whose
\* category was of no catalog and which no rule matches: it is pending
C9_Witness ==
  /\ fnOut.fn = "main"
  /\ \E i \in DOMAIN fnIn.existingTransactions :
        LET e == fnIn.existingTransactions[i]
        IN  /\ e.category \notin CATEGORIES
            /\ ~NonBlank(e.categoryOverride)
            /\ matchingRules(e) = {}
            /\ \E j \in DOMAIN fnOut.result :
                  /\ parseString(fnOut.result[j].id) = e.id
                  /\ "categoryOverride" \notin DOMAIN fnOut.result[j]
                  /\ fnOut.result[j].category = "pendiente"

idFields ==
  { "valorDate", "fecha", "description", "movimiento", "amount", "disponible" }

idOf(call) ==
  generateId(call.valorDate, call.fecha, call.description, call.movimiento,
             call.amount, call.disponible)

hashInputOf(call) ==
  hashInput(call.valorDate, call.fecha, call.description, call.movimiento,
            call.amount, call.disponible)

\* C10: generateId gives the same id for the same six fields, and an input
\* that differs in exactly one of the six fields (the amount being an
\* absolute amount) gives another hashed string and another id.
C10_IdSensitive ==
  fnOut.fn = "generateId" =>
    \A other \in GenerateIdCalls :
       LET differing == { f \in idFields : other[f] # fnIn[f] }
       IN  /\ differing = {} => idOf(other) = fnOut.result
           /\ Cardinality(differing) = 1 =>
                /\ hashInputOf(other) # hashInputOf(fnIn)
                /\ idOf(other) # fnOut.result

\* an id made of an amount below one unit, an empty movement and a
\* description that holds the delimiter
C10_Witness ==
  /\ fnOut.fn = "generateId"
  /\ fnIn.amount = 50
  /\ fnIn.movimiento = << >>
  /\ "|" \in Range(fnIn.description)
  /\ fnOut.result = idOf(fnIn)

\* C11: two calls of generateId whose six fields are not all the same get
\* different hashed strings and different ids, whatever text the description
\* and the movement hold.
C11_IdInjective ==
  fnOut.fn = "generateId" =>
    \A other \in GenerateIdCalls :
       (\E f \in idFields : other[f] # fnIn[f]) =>
          /\ hashInputOf(other) # hashInputOf(fnIn)
          /\ idOf(other) # fnOut.result

-----------------------------------------------------------------------------
(* Properties of the pipeline (Spec)                                       *)

\* the latest run of main wrote the store and the store is as it wrote it
Written == lastRun.outcome = "written" /\ ~lastRun.editedAfter

\* the batch main hands mergeTransactions at the latest run
categorizedNewTransactions == applyRulesToTransactions(allCSVTransactions, FALSE)

\* C2: from an absent store, a run of main that writes the store followed,
\* with no edit between, by a run on the same files leaves the store the
\* first run wrote: the same records in the same order.
C2_Idempotent ==
  ( /\ Written
    /\ ~lastRun.editedBefore
    /\ lastRun.prev.outcome = "written"
    /\ ~lastRun.prev.beforeExists
    /\ lastRun.prev.files = lastRun.files )
  => storeFile = lastRun.before

\* the second of two runs on both files has written the store
C2_Witness ==
  /\ Written
  /\ ~lastRun.editedBefore
  /\ lastRun.prev.outcome = "written"
  /\ ~lastRun.prev.beforeExists
  /\ lastRun.prev.files = lastRun.files
  /\ Len(lastRun.files) = 2
  /\ Len(storeFile.content) >= 7
  /\ storeFile = lastRun.before

\* C4: a loaded record whose id an incoming transaction holds is in the
\* result of mergeTransactions with all its fields, the only record of that
\* id, and the store written holds under that id the overrides the record
\* was loaded with (those that are not blank).
C4_FirstWriterWins ==
  Written =>
    LET incoming    == categorizedNewTransactions
        incomingIds == idsOf(incoming)
        merged      == mergeTransactions(existingTransactions, incoming)
    IN  \A i \in DOMAIN existingTransactions :
           LET e == existingTransactions[i]
           IN  e.id \in incomingIds =>
                 /\ \E k \in DOMAIN merged : merged[k] = e
                 /\ \A k \in DOMAIN merged : merged[k].id = e.id => merged[k] = e
                 /\ \E j \in DOMAIN storeFile.content :
                       parseString(storeFile.content[j].id) = e.id
                 /\ \A j \in DOMAIN storeFile.content :
                       parseString(storeFile.content[j].id) = e.id =>
                         \A key \in OverrideKeys :
                            NonBlank(e[key]) =>
                              stringMember(storeFile.content[j], key) = e[key]

\* a run has imported again the row of a record that was loaded with an
\* override, and the incoming transaction of that id is another record
C4_Witness ==
  /\ Written
  /\ LET incoming == categorizedNewTransactions
     IN  \E i \in DOMAIN existingTransactions, n \in DOMAIN incoming :
            LET e == existingTransactions[i]
            IN  /\ incoming[n].id = e.id
                /\ incoming[n] # e
                /\ \E key \in OverrideKeys :
                      /\ NonBlank(e[key])
                      /\ \E j \in DOMAIN storeFile.content :
                            /\ parseString(storeFile.content[j].id) = e.id
                            /\ stringMember(storeFile.content[j], key) = e[key]

\* C5: from an absent store, whatever files the runs of main read and
\* whatever overrides are edited between them, the store holds no id twice.
C5_UniqueIds == distinctIds(storeFile.content)

\* two runs have written the store, an edit between them, the second run
\* reading rows the store already held
C5_Witness ==
  /\ Written
  /\ lastRun.prev.outcome = "written"
  /\ lastRun.editedBefore
  /\ idsOf(existingTransactions) \cap seenIds # {}
  /\ seenIds \ idsOf(existingTransactions) # {}
  /\ Len(storeFile.content) >= 7
  /\ distinctIds(storeFile.content)

\* C6: in the store a run has written, of two records whose dates are
\* calendar dates the one that comes first has the later or the same date.
C6_DateDescending ==
  Written =>
    \A i, j \in DOMAIN storeFile.content :
       LET dateI == getTime(parseString(storeFile.content[i].date))
           dateJ == getTime(parseString(storeFile.content[j].date))
       IN  (i < j /\ ~dateI.nan /\ ~dateJ.nan) => dateI.v >= dateJ.v

\* C7: two records of equal date are in the result of mergeTransactions in
\* the order they had before the sort: the loaded records in their order,
\* then the added ones in batch order.
C7_StableTies ==
  Written =>
    LET before == mergedUnsorted(existingTransactions, categorizedNewTransactions)
        after  == mergeTransactions(existingTransactions, categorizedNewTransactions)
        position(x) == CHOOSE k \in DOMAIN after : after[k] = x
    IN  \A i, j \in DOMAIN before :
           (i < j /\ before[i].date = before[j].date)
             => position(before[i]) < position(before[j])

\* the ids of the records a store file holds
storedIds(file) == { parseString(file.content[i].id) : i \in DOMAIN file.content }

\* C12: after a run of main that writes the store, every record the store
\* file held when the run loaded it is in the store under the same id,
\* whatever files the run read and whatever state the store file was in.
C12_NoDeletion ==
  Written => storedIds(lastRun.before) \subseteq storedIds(storeFile)

\* C13: a run of main writes the store only when it found a file and the
\* store file, if there was one, was parsed; a run that found no file, or
\* whose store file JSON.parse threw on, leaves the store file as it was.
C13_FatalWritesNothing ==
  /\ lastRun.outcome = "written" =>
       /\ lastRun.files # << >>
       /\ lastRun.before.exists => lastRun.before.wellFormed
  /\ ( /\ lastRun.outcome \in { "nofiles", "written" }
       /\ ~lastRun.editedAfter
       /\ \/ lastRun.files = << >>
          \/ lastRun.before.exists /\ ~lastRun.before.wellFormed )
     => storeFile = lastRun.before

-----------------------------------------------------------------------------
(* Properties of the transaction builder (SpecFn)                          *)

\* the value date, the secondary date if there is one, and the amount of the
\* row all convert
rowConverts(row) ==
  /\ convertDate(row.valorDate).ok
  /\ row.fecha # << >> => convertDate(row.fecha).ok
  /\ parseAmount(row.importe).ok

\* the positions of the rows that convert
keptRows(csvRows) == { i \in DOMAIN csvRows : rowConverts(csvRows[i]) }

\* the position of the k-th row that converts
nthKept(csvRows, k) ==
  CHOOSE i \in keptRows(csvRows) :
     Cardinality({ j \in keptRows(csvRows) : j < i }) = k - 1

\* C14: transformToTransactions returns one transaction for each row whose
\* value date, secondary date and amount convert, in the order of the rows,
\* each the transaction the row gives when it is alone, and nothing for the
\* other rows.
C14_PartialFailure ==
  fnOut.fn = "transformToTransactions" =>
    LET csvRows == fnIn.csvRows
    IN  /\ Len(fnOut.result) = Cardinality(keptRows(csvRows))
        /\ \A k \in DOMAIN fnOut.result :
             LET row == csvRows[nthKept(csvRows, k)]
             IN  /\ fnOut.result[k].description = row.concepto
                 /\ fnOut.result[k].date = convertDate(row.valorDate).value
                 /\ << fnOut.result[k] >> = transformToTransactions(<< row >>)

\* a batch whose first row has a secondary date that does not convert and
\* whose second row converts: one transaction, that of the second row
C14_Witness ==
  /\ fnOut.fn = "transformToTransactions"
  /\ Len(fnIn.csvRows) = 2
  /\ convertDate(fnIn.csvRows[1].valorDate).ok
  /\ parseAmount(fnIn.csvRows[1].importe).ok
  /\ ~rowConverts(fnIn.csvRows[1])
  /\ rowConverts(fnIn.csvRows[2])
  /\ Len(fnOut.result) = 1
  /\ fnOut.result[1].date = convertDate(fnIn.csvRows[2].valorDate).value

\* C16: a transaction transformToTransactions returns has the absolute value
\* of the parsed amount as amount, not negative; type "expense" when the
\* parsed amount is below zero and "income" otherwise; category "pendiente",
\* account "checking" and neither override.
C16_BuilderPostcondition ==
  fnOut.fn = "transformToTransactions" =>
    \A k \in DOMAIN fnOut.result :
       LET row    == fnIn.csvRows[nthKept(fnIn.csvRows, k)]
           parsed == parseAmount(row.importe).value
           built  == fnOut.result[k]
       IN  /\ built.amount >= 0
           /\ built.amount = IF parsed < 0 THEN 0 - parsed ELSE parsed
           /\ built.type = "expense" <=> parsed < 0
           /\ built.type = "income" <=> parsed >= 0
           /\ built.category = "pendiente"
           /\ built.account = "checking"
           /\ built.categoryOverride = Undefined
           /\ built.descriptionOverride = Undefined

\* a batch of a row of amount zero and a row of a negative amount: an income
\* of 0 and an expense of the magnitude
C16_Witness ==
  /\ fnOut.fn = "transformToTransactions"
  /\ Len(fnOut.result) = 2
  /\ parseAmount(fnIn.csvRows[1].importe).value = 0
  /\ parseAmount(fnIn.csvRows[2].importe).value < 0
  /\ fnOut.result[1].type = "income"
  /\ fnOut.result[1].amount = 0
  /\ fnOut.result[2].type = "expense"
  /\ fnOut.result[2].amount > 0

-----------------------------------------------------------------------------
(* Properties of the row extractor (SpecFn)                                *)

\* the text without the white space at its ends
stripped(s) ==
  LET inside == { i \in DOMAIN s : s[i] \notin WhiteSpace }
  IN  IF inside = {} THEN << >>
      ELSE SubSeq(s, CHOOSE i \in inside : \A j \in inside : i <= j,
                     CHOOSE i \in inside : \A j \in inside : i >= j)

\* a line of these columns is one the claim gives a row for: not blank, six
\* fields or more, and value date, description and amount not blank
givesRow(columns) ==
  /\ \E i \in DOMAIN columns : stripped(columns[i]) # << >>
  /\ Len(columns) >= 6
  /\ stripped(columns[2]) # << >>
  /\ stripped(columns[4]) # << >>
  /\ stripped(columns[6]) # << >>

\* the positions of the lines after the fifth that give a row
rowLines(lines) == { i \in DOMAIN lines : i > 5 /\ givesRow(lines[i]) }

\* the position of the k-th line that gives a row
nthRowLine(lines, k) ==
  CHOOSE i \in rowLines(lines) :
     Cardinality({ j \in rowLines(lines) : j < i }) = k - 1

\* C15: parseCSV returns one row for each line after the fifth that is not
\* blank, has six fields or more and whose value date, description and amount
\* are not blank, in the order of the lines, and nothing for any other line;
\* the fields of a row are the trimmed columns 1 to 5 and 7, the balance
\* being empty when the line has no column 7 or a blank one.
C15_RowExtraction ==
  fnOut.fn = "parseCSV" =>
    LET lines == fnIn.lines
    IN  /\ Len(fnOut.result) = Cardinality(rowLines(lines))
        /\ \A k \in DOMAIN fnOut.result :
             LET columns == lines[nthRowLine(lines, k)]
                 row     == fnOut.result[k]
             IN  /\ row.valorDate = stripped(columns[2])
                 /\ row.fecha = stripped(columns[3])
                 /\ row.concepto = stripped(columns[4])
                 /\ row.movimiento = stripped(columns[5])
                 /\ row.importe = stripped(columns[6])
                 /\ row.disponible =
                      IF Len(columns) >= 8 THEN stripped(columns[8]) ELSE << >>

\* a file whose fifth line is a data line, followed by a line of five
\* columns and a line of six: one row, of the last line, its balance empty
C15_Witness ==
  /\ fnOut.fn = "parseCSV"
  /\ Len(fnIn.lines) = 7
  /\ givesRow(fnIn.lines[5])
  /\ Len(fnIn.lines[6]) = 5
  /\ Len(fnIn.lines[7]) = 6
  /\ Len(fnOut.result) = 1
  /\ fnOut.result[1].concepto = stripped(fnIn.lines[7][4])
  /\ fnOut.result[1].disponible = << >>

-----------------------------------------------------------------------------
(* Properties of the rule application and of the serializer (SpecFn)       *)

blankAsAbsent(transaction) ==
  [ transaction EXCEPT
      !.categoryOverride = IF NonBlank(@) THEN @ ELSE Undefined,
      !.descriptionOverride = IF NonBlank(@) THEN @ ELSE Undefined ]

\* C18: parseExistingTransactions applied to what generateJSON writes gives
\* the list back, as long, in the same order, every field equal, when each
\* override of the list is absent or not blank; an override that is blank
\* is left out by generateJSON and read back as absent.
C18_RoundTrip ==
  fnOut.fn = "generateJSON" =>
    LET transactions == fnIn.transactions
        parsed       == fnOut.result.parsed
    IN  /\ DOMAIN parsed = DOMAIN transactions
        /\ DOMAIN fnOut.result.json = DOMAIN transactions
        /\ (\A i \in DOMAIN transactions :
              \A key \in OverrideKeys :
                 transactions[i][key] = Undefined \/ NonBlank(transactions[i][key]))
             => parsed = transactions
        /\ \A i \in DOMAIN transactions :
             /\ parsed[i] = blankAsAbsent(transactions[i])
             /\ \A key \in OverrideKeys :
                  ~NonBlank(transactions[i][key])
                    => /\ key \notin DOMAIN fnOut.result.json[i]
                       /\ parsed[i][key] = Undefined

\* a transaction whose description and descriptionOverride hold a quote and
\* a backslash and whose amount has a fraction is read back as it was, and a
\* transaction with a blank categoryOverride is read back without it
C18_Witness ==
  /\ fnOut.fn = "generateJSON"
  /\ Len(fnIn.transactions) = 2
  /\ "\\" \in Range(fnIn.transactions[1].description)
  /\ "\"" \in Range(fnIn.transactions[1].description)
  /\ NonBlank(fnIn.transactions[1].descriptionOverride)
  /\ NonBlank(fnIn.transactions[1].categoryOverride)
  /\ fnIn.transactions[1].amount = 5
  /\ fnOut.result.json[1].description # stringifyStringRaw(fnIn.transactions[1].description)
  /\ fnOut.result.parsed[1] = fnIn.transactions[1]
  /\ fnIn.transactions[2].categoryOverride = Some(<< " " >>)
  /\ fnOut.result.parsed[2].categoryOverride = Undefined

-----------------------------------------------------------------------------
(* Properties of a run on a store a run has written (Spec)                 *)

\* the records parseExistingTransactions reads from a store file, a blank
\* override taken for absent
storedRecords(file) ==
  [ i \in DOMAIN file.content |-> blankAsAbsent(parsedItem(file.content[i])) ]

\* the latest run wrote the store from a store file that parsed and that
\* held the id of every transaction built from the files of the run
Reimported ==
  /\ Written
  /\ lastRun.before.exists
  /\ lastRun.before.wellFormed
  /\ seenIds \subseteq storedIds(lastRun.before)

\* C19: a run of main on a store a run has written, overrides edited or not
\* since, that holds the id of every transaction built from the files of
\* the run adds no record and writes the same records in the same order.
C19_ReimportFixpoint ==
  Reimported =>
    /\ Len(storeFile.content) = Len(lastRun.before.content)
    /\ \A i \in DOMAIN storeFile.content :
         storeFile.content[i].id = lastRun.before.content[i].id
    /\ storedRecords(storeFile) = storedRecords(lastRun.before)

\* the second run read a file again after an override was edited in the
\* store of seven records the first run wrote from both files
C19_Witness ==
  /\ Reimported
  /\ lastRun.editedBefore
  /\ seenIds # {}
  /\ Len(lastRun.before.content) >= 7
  /\ \E i \in DOMAIN lastRun.before.content :
        DOMAIN lastRun.before.content[i] \cap OverrideKeys # {}
  /\ storedRecords(storeFile) = storedRecords(lastRun.before)

\* the fields of a stored record a run is to leave alone
frameOf(record) ==
  [ id |-> record.id, date |-> record.date, description |-> record.description,
    amount |-> record.amount, account |-> record.account, type |-> record.type,
    categoryOverride |-> record.categoryOverride,
    descriptionOverride |-> record.descriptionOverride ]

\* C20: after a run of main that writes the store, every record the store
\* file held before the run is in the store with the id, date, description,
\* amount, account, type and overrides (those that are not blank) it had,
\* and a record of the store has an override only if the store file held
\* that record with that override before the run.
C20_PipelineFrame ==
  Written =>
    LET before == storedRecords(lastRun.before)
        after  == storedRecords(storeFile)
    IN  /\ \A i \in DOMAIN before :
             \E j \in DOMAIN after : frameOf(after[j]) = frameOf(before[i])
        /\ \A j \in DOMAIN after :
             \A key \in OverrideKeys :
                after[j][key] # Undefined =>
                  \E i \in DOMAIN before :
                     /\ before[i].id = after[j].id
                     /\ before[i][key] = after[j][key]

-----------------------------------------------------------------------------
(* Properties of main from the batch to the write (SpecFn)                 *)

\* C21: every record of the store main writes whose categoryOverride is
\* absent or blank has the category categorizeTransaction gives that record
\* under the rules, whatever category it had in the loaded store.
C21_Reclassified ==
  fnOut.fn = "main" =>
    \A j \in DOMAIN fnOut.result :
       LET record == parsedItem(fnOut.result[j])
       IN  ~NonBlank(record.categoryOverride)
             => record.category = categorizeTransaction(record)

\* a loaded record without an override, of a category of an older catalog,
\* which a rule matches: the store written holds it with the rule's category
C21_Witness ==
  /\ fnOut.fn = "main"
  /\ \E i \in DOMAIN fnIn.existingTransactions :
        LET e == fnIn.existingTransactions[i]
        IN  /\ e.categoryOverride = Undefined
            /\ e.category = "legacy"
            /\ matchingRules(e) # {}
            /\ \E j \in DOMAIN fnOut.result :
                  /\ parseString(fnOut.result[j].id) = e.id
                  /\ fnOut.result[j].category = categorizeTransaction(e)
                  /\ fnOut.result[j].category \notin { "legacy", "pendiente" }

-----------------------------------------------------------------------------
(* Properties of the stages of a run (Spec)                                *)

\* the batch main has after the loop over the given files
RECURSIVE batchOf(_, _, _)
batchOf(files, all, seen) ==
  IF files = << >> THEN [ all |-> all, seen |-> seen ]
  ELSE LET added == addUnseen(all, seen, transactionsOfFile[Head(files)])
       IN  batchOf(Tail(files), added.all, added.seen)

\* C22: a run reads the store file once, when it starts and before it
\* parses any file; while it parses, it neither reads the store again nor
\* writes it; it writes the store once, as its last step, when every file
\* has been parsed, and what it writes is the list categorized, merged with
\* what it read and categorized again, whether or not the list holds an id
\* twice; a run that finds no file writes nothing.
C22_StageOrder ==
  [][ /\ runs' # runs =>
           /\ pc = "idle"
           /\ existingTransactions' = parseExistingTransactions(storeFile)
           /\ allCSVTransactions' = << >>
           /\ seenIds' = {}
           /\ storeFile' = storeFile
      /\ pc = "parsing" =>
           /\ runs' = runs
           /\ existingTransactions' = existingTransactions
           /\ csvFiles # << >> => storeFile' = storeFile /\ pc' = "parsing"
           /\ csvFiles = << >> =>
                /\ allCSVTransactions = batchOf(lastRun.files, << >>, {}).all
                /\ storeFile' = WrittenStore(generateJSON(
                       categorizedTransactionsOf(existingTransactions,
                                                 allCSVTransactions)))
                /\ pc' = "idle"
    ]_vars

\* the second run has written the store after it parsed two files, the
\* store it read being the one the first run wrote
C22_Witness ==
  /\ Written
  /\ Len(lastRun.files) = 2
  /\ lastRun.before.exists
  /\ lastRun.before.wellFormed
  /\ existingTransactions = parseExistingTransactions(lastRun.before)
  /\ pc = "idle"

\* the transactions built from the given files, file after file
RECURSIVE builtFrom(_)
builtFrom(files) ==
  IF files = << >> THEN << >>
  ELSE transactionsOfFile[Head(files)] \o builtFrom(Tail(files))

\* the place of the first transaction of that id
firstOf(transactions, id) ==
  CHOOSE i \in DOMAIN transactions :
     /\ transactions[i].id = id
     /\ \A j \in DOMAIN transactions : transactions[j].id = id => i <= j

\* C23: the files of a run are taken in the order of their names, and the
\* batch the run has collected when it writes holds each id of the
\* transactions built from the files once: the first transaction of that id
\* in the order of the files and of the rows, the batch being in the order
\* of these first transactions.
C23_BatchDedup ==
  lastRun.outcome = "written" =>
    LET built == builtFrom(lastRun.files)
        batch == allCSVTransactions
    IN  /\ \A i, j \in DOMAIN lastRun.files :
             i < j => stringLess(lastRun.files[i], lastRun.files[j])
        /\ distinctIds(batch)
        /\ idsOf(batch) = idsOf(built)
        /\ seenIds = idsOf(built)
        /\ \A k \in DOMAIN batch : batch[k] = built[firstOf(built, batch[k].id)]
        /\ \A k, l \in DOMAIN batch :
             k < l => firstOf(built, batch[k].id) < firstOf(built, batch[l].id)

\* a run on both files: an id built from a row of the first file and from
\* a row of the other sign of the second, and an id built twice from the
\* second file
C23_Witness ==
  /\ lastRun.outcome = "written"
  /\ Len(lastRun.files) = 2
  /\ LET first  == transactionsOfFile[lastRun.files[1]]
         second == transactionsOfFile[lastRun.files[2]]
     IN  /\ \E i \in DOMAIN first, j \in DOMAIN second :
               /\ first[i].id = second[j].id
               /\ first[i] # second[j]
               /\ \E k \in DOMAIN allCSVTransactions : allCSVTransactions[k] = first[i]
         /\ \E i, j \in DOMAIN second : i < j /\ second[i].id = second[j].id
         /\ Len(allCSVTransactions) < Len(first) + Len(second)

-----------------------------------------------------------------------------
(* Properties of the date conversion (SpecFn)                              *)

allDigits(s) == \A i \in DOMAIN s : IsDigit(s[i])

\* YYYY-MM-DD: four digits, two digits, two digits
isoForm(s) ==
  /\ Len(s) = 10
  /\ s[5] = "-"
  /\ s[8] = "-"
  /\ \A i \in { 1, 2, 3, 4, 6, 7, 9, 10 } : IsDigit(s[i])

\* D{1,2}/M{1,2}/Y{4}
dayMonthYear(s) ==
  LET parts == split(s, "/")
  IN  /\ Len(parts) = 3
      /\ \A i \in 1 .. 3 : allDigits(parts[i])
      /\ Len(parts[1]) \in { 1, 2 }
      /\ Len(parts[2]) \in { 1, 2 }
      /\ Len(parts[3]) = 4

\* C24: convertDate throws or returns a text of the form YYYY-MM-DD, and it
\* throws for every text that is not of the form D{1,2}/M{1,2}/Y{4}.
C24_DateForm ==
  fnOut.fn = "convertDate" =>
    /\ fnOut.result.ok => isoForm(fnOut.result.value)
    /\ ~dayMonthYear(fnIn.dateStr) => ~fnOut.result.ok

-----------------------------------------------------------------------------
(* Properties of the duplicate warning (SpecFn)                            *)

\* how many records of the list have the frame of the record
copiesOf(records, record) ==
  Cardinality({ i \in DOMAIN records :
                  frameOf(blankAsAbsent(records[i])) = frameOf(blankAsAbsent(record)) })

\* C25: when the list main ends with holds an id more than once, main
\* writes the whole list all the same: every loaded record is written, as
\* many times as it was loaded, with every new transaction of the batch, and
\* the warning reports the number of records beyond one per id.
C25_WarningNonFatal ==
  fnOut.fn = "mainVerify" =>
    LET existing == fnIn.existingTransactions
        written  == [ j \in DOMAIN fnOut.result.json |-> parsedItem(fnOut.result.json[j]) ]
        newIds   == idsOf(fnIn.allCSVTransactions) \ idsOf(existing)
    IN  /\ Len(written) = Len(existing) + Cardinality(newIds)
        /\ \A i \in DOMAIN existing :
             copiesOf(written, existing[i]) >= copiesOf(existing, existing[i])
        /\ fnOut.result.warning = Len(written) - Cardinality(idsOf(written))
        /\ fnOut.result.warning = Len(existing) - Cardinality(idsOf(existing))

\* the loaded store held one id twice, with different overrides, and the
\* batch brought new transactions: all are written and the warning counts 1
C25_Witness ==
  /\ fnOut.fn = "mainVerify"
  /\ Len(fnIn.existingTransactions) = 2
  /\ fnIn.existingTransactions[1].id = fnIn.existingTransactions[2].id
  /\ fnIn.existingTransactions[1].categoryOverride
       # fnIn.existingTransactions[2].categoryOverride
  /\ NonBlank(fnIn.existingTransactions[1].categoryOverride)
  /\ fnIn.allCSVTransactions # << >>
  /\ fnOut.result.warning = 1
  /\ Len(fnOut.result.json) > Len(fnIn.existingTransactions)
  /\ Cardinality({ j \in DOMAIN fnOut.result.json :
                     parseString(fnOut.result.json[j].id)
                       = fnIn.existingTransactions[1].id }) = 2

-----------------------------------------------------------------------------
(* Properties of the id of a built transaction (SpecFn)                    *)

\* the transactions built from the row alone
builtAlone(row) == transformToTransactions(<< row >>)

\* C26: the transaction built from a row whose secondary date is empty has
\* the id of the transaction built from the same row with its value date
\* for secondary date; a row whose secondary date is another date has
\* another id.
C26_SecondaryDateFallback ==
  fnOut.fn = "transformToTransactions" =>
    \A k \in DOMAIN fnOut.result :
       LET row      == fnIn.csvRows[nthKept(fnIn.csvRows, k)]
           blank    == [ row EXCEPT !.fecha = << >> ]
           repeated == [ row EXCEPT !.fecha = row.valorDate ]
       IN  /\ Len(builtAlone(blank)) = 1
           /\ Len(builtAlone(repeated)) = 1
           /\ builtAlone(blank)[1].id = builtAlone(repeated)[1].id
           /\ row.fecha = << >> => fnOut.result[k].id = builtAlone(repeated)[1].id
           /\ convertDate(row.fecha).ok
                /\ convertDate(row.fecha).value # convertDate(row.valorDate).value
                => fnOut.result[k].id # builtAlone(blank)[1].id

\* a batch of a row without a secondary date and of the same row with a
\* secondary date of the day before: two transactions of different ids, the
\* first with the id made of the value date twice
C26_Witness ==
  /\ fnOut.fn = "transformToTransactions"
  /\ Len(fnIn.csvRows) = 2
  /\ Len(fnOut.result) = 2
  /\ fnIn.csvRows[1].fecha = << >>
  /\ fnIn.csvRows[2] = [ fnIn.csvRows[1] EXCEPT
                           !.fecha = <<"0","4","/","0","5","/","2","0","2","4">> ]
  /\ fnOut.result[1].id # fnOut.result[2].id
  /\ fnOut.result[1].id =
       generateId(fnOut.result[1].date, fnOut.result[1].date,
                  fnIn.csvRows[1].concepto, fnIn.csvRows[1].movimiento,
                  fnOut.result[1].amount, fnIn.csvRows[1].disponible)

-----------------------------------------------------------------------------
(* Properties of the store over the runs (Spec)                            *)

\* C27: from an absent store, as long as the store file was never left
\* unparsable, the ids the store holds are the ids of the transactions
\* built from the files of all the runs that wrote it, and a run that
\* writes the store leaves it with no fewer records than it read.
C27_StoreIsUnion ==
  ~lastRun.corrupted =>
    /\ storedIds(storeFile) = lastRun.imported
    /\ Written => Len(storeFile.content) >= Len(lastRun.before.content)

\* two runs have written the store, the first from one file and the second
\* from the other, an override edited between them: the store holds the
\* ids of both files, more records than after the first run
C27_Witness ==
  /\ ~lastRun.corrupted
  /\ Written
  /\ lastRun.prev.outcome = "written"
  /\ lastRun.editedBefore
  /\ lastRun.prev.files # lastRun.files
  /\ Len(lastRun.files) = 1
  /\ Len(lastRun.prev.files) = 1
  /\ storedIds(storeFile) = builtIds(lastRun.files) \cup builtIds(lastRun.prev.files)
  /\ Len(storeFile.content) > Len(lastRun.before.content)
  /\ storedIds(lastRun.before) # {}

-----------------------------------------------------------------------------
(* Properties of the rule list (SpecFn)                                    *)

\* C28: an income whose description is a keyword of a rule gets the
\* category of that rule from categorizeTransaction.
C28_KeywordEffective ==
  ( /\ fnOut.fn = "categorizeTransaction"
    /\ fnIn.transaction.type = "income" )
  => \A r \in DOMAIN getCategorizationRules :
        \A i \in DOMAIN getCategorizationRules[r].keywords :
           fnIn.transaction.description = getCategorizationRules[r].keywords[i]
             => fnOut.result = getCategorizationRules[r].category

-----------------------------------------------------------------------------
(* The sign of the amount and the identity (Spec)                          *)

\* the rows of the statement files
statementRows ==
  UNION { { parseCSV(readFileSync(name))[k] :
              k \in DOMAIN parseCSV(readFileSync(name)) } : name \in DirectoryNames }

\* the converted secondary date of a row, the value date when it has none
fechaOf(row) ==
  IF row.fecha # << >> THEN convertDate(row.fecha) ELSE convertDate(row.valorDate)

\* an expense row and an income row of the same dates, description,
\* movement detail, absolute amount and balance
mirrorRows ==
  { pair \in statementRows \X statementRows :
      /\ buildTransaction(pair[1]).ok
      /\ buildTransaction(pair[2]).ok
      /\ convertDate(pair[1].valorDate) = convertDate(pair[2].valorDate)
      /\ fechaOf(pair[1]) = fechaOf(pair[2])
      /\ pair[1].concepto = pair[2].concepto
      /\ pair[1].movimiento = pair[2].movimiento
      /\ pair[1].disponible = pair[2].disponible
      /\ parseAmount(pair[1].importe).value < 0
      /\ parseAmount(pair[2].importe).value = 0 - parseAmount(pair[1].importe).value }

\* the expense and the income built from such rows
mirrorTransactions ==
  { << buildTransaction(pair[1]).value, buildTransaction(pair[2]).value >> :
      pair \in mirrorRows }

\* the places of the list that hold the id
placesOf(transactions, id) ==
  { i \in DOMAIN transactions : transactions[i].id = id }

\* C29: an expense row and an income row that differ in the sign of the
\* amount only give one id; the batch of a run holds that id at most once,
\* with the type of the first of the rows in file and row order; and a run
\* that loaded a record of that id writes that record, with its type, and
\* no other record of that id.
C29_SignNotInId ==
  \A pair \in mirrorTransactions :
     LET expense == pair[1]
         income  == pair[2]
         id      == pair[1].id
     IN  /\ expense.type = "expense"
         /\ income.type = "income"
         /\ income.id = id
         /\ lastRun.outcome = "written" =>
              LET built == builtFrom(lastRun.files)
                  batch == allCSVTransactions
              IN  /\ Cardinality(placesOf(batch, id)) <= 1
                  /\ \A k \in placesOf(batch, id) :
                        batch[k].type = built[firstOf(built, id)].type
         /\ (Written /\ placesOf(existingTransactions, id) # {}) =>
              LET stored == storedRecords(storeFile)
              IN  /\ Cardinality(placesOf(stored, id))
                       = Cardinality(placesOf(existingTransactions, id))
                  /\ \A i \in placesOf(stored, id) :
                        \E j \in placesOf(existingTransactions, id) :
                           stored[i].type = existingTransactions[j].type

\* a run on the file of the income row alone that loaded the expense: the
\* batch holds the income, the store written still holds the expense only
C29_Witness ==
  /\ Written
  /\ \E pair \in mirrorTransactions :
        LET id     == pair[1].id
            stored == storedRecords(storeFile)
        IN  /\ \E j \in placesOf(existingTransactions, id) :
                  existingTransactions[j].type = "expense"
            /\ \E k \in placesOf(allCSVTransactions, id) :
                  allCSVTransactions[k].type = "income"
            /\ \A i \in placesOf(stored, id) : stored[i].type = "expense"
            /\ placesOf(stored, id) # {}

-----------------------------------------------------------------------------
(* Interleaved runs and edits (SpecInterleaved)                            *)

\* main() has just written the store
JustWritten == lastRun.outcome = "written" /\ ~lastRun.editedAfter

\* the override the store written by main() holds for a record of that id:
\* the one main() loaded, none for a record built from a file
overrideWritten(id, key) ==
  IF placesOf(existingTransactions, id) = {} THEN { Undefined }
  ELSE { blankAsAbsent(existingTransactions[j])[key] :
           j \in placesOf(existingTransactions, id) }

\* C30: main() writes the store from what it loaded, without reading the
\* file again.  Of what landed on the file between the load and the write,
\* an edit of an override is not in the store main() writes, and a record
\* a second invocation added is in it only when main() loaded or built a
\* record of that id itself.  When nothing landed between the load and the
\* write, every record the file held is kept with its overrides.
C30_LostUpdate ==
  JustWritten =>
    LET stored == storedRecords(storeFile)
    IN  /\ storeFile = WrittenStore(generateJSON(
                          categorizedTransactionsOf(existingTransactions,
                                                    allCSVTransactions)))
        /\ \A e \in landedNow :
              /\ e.kind = "write" =>
                   \A id \in e.ids :
                      id \in storedIds(storeFile)
                        <=> id \in idsOf(existingTransactions)
                                     \cup idsOf(allCSVTransactions)
              /\ e.kind = "edit" =>
                   \A id \in e.ids : \A i \in placesOf(stored, id) :
                      stored[i][e.key] \in overrideWritten(id, e.key)
        /\ (landedNow = {} /\ lastRun.before.exists) =>
              LET before == storedRecords(lastRun.before)
              IN  \A j \in DOMAIN before :
                     \E i \in placesOf(stored, before[j].id) :
                        /\ stored[i].categoryOverride = before[j].categoryOverride
                        /\ stored[i].descriptionOverride
                             = before[j].descriptionOverride

\* C30 as stated: whatever landed between the load and the write is absent
\* from the store main() writes, the records a second invocation added
\* included.
C30_LandedAbsent ==
  JustWritten =>
    LET stored == storedRecords(storeFile)
    IN  \A e \in landedNow :
           /\ e.kind = "write" => e.ids \cap storedIds(storeFile) = {}
           /\ e.kind = "edit" =>
                \A id \in e.ids : \A i \in placesOf(stored, id) :
                   stored[i][e.key] # Some(e.value)

\* a second invocation wrote records and the editor set an override of one
\* of them between the load and the write of main(): the store main()
\* wrote lacks a record the second invocation added, and none of its
\* records has the override
C30_Witness ==
  /\ JustWritten
  /\ \E e \in landedNow :
        /\ e.kind = "write"
        /\ e.ids \ storedIds(storeFile) # {}
  /\ \E e \in landedNow :
        /\ e.kind = "edit"
        /\ e.value # << " " >>
        /\ \A i \in DOMAIN storedRecords(storeFile) :
              storedRecords(storeFile)[i][e.key] = Undefined

\* runs and edits one after the other: main() wrote a store that keeps an
\* override set before it loaded
C30_SerializedWitness ==
  /\ JustWritten
  /\ landedNow = {}
  /\ lastRun.editedBefore
  /\ \E i \in DOMAIN storedRecords(storeFile) :
        storedRecords(storeFile)[i].categoryOverride # Undefined

====
